---- MODULE Spec2Model ----
(***************************************************************************)
(* rprint designer: the editing store (useDesignerStore) and the PDF/HTML  *)
(* compiler (compileToPdfHtml, escapeHtml).                                *)
(*                                                                         *)
(* Numbers.  z is a JavaScript number that the store changes by +1, -1 and *)
(* +0.5, -0.5; it is kept here in half units (model z = 2 * program z), so *)
(* every value the operations produce is an integer.  x, y, width, height  *)
(* are millimetres, except under SpecAlign and SpecDuplicate, where they   *)
(* are counted in units of 1 / AlignUnit mm so that the halves alignment   *)
(* and distribution take stay whole; floating-point rounding is not        *)
(* modelled.  Strings that the compiler inspects character by              *)
(* character (content, dataBinding) are sequences of one-character         *)
(* strings; compiler output is a sequence of string pieces.                *)
(***************************************************************************)
EXTENDS Integers, Sequences, FiniteSets, TLC

VARIABLES
    elements,      \* DesignerState.elements
    selectedIds,   \* DesignerState.selectedIds
    history,       \* DesignerState.history: [past, future]
    isDirty,       \* DesignerState.isDirty
    config,        \* DesignerState.config
    nextId,        \* the uuid the next uuidv4() call returns
    ops,           \* the last operations called, newest first: the name, the
                   \* ids given and the store as it was before the call
    steps,         \* operations performed (bounded runs on a full history)
    text,          \* escapeHtml: the argument
    escaped,       \* escapeHtml: the returned string
    result,        \* the CompileResult of the last compileToPdfHtml call
    compiled       \* the last compilations, newest first: what was compiled,
                   \* the store it was taken from, the result

vars == <<elements, selectedIds, history, isDirty, config, nextId, ops,
          steps, text, escaped, result, compiled>>

storeVars == <<elements, selectedIds, history, isDirty, config>>

-----------------------------------------------------------------------------
(* Bounds *)

MaxIds == 3        \* uuids handed out in one run
MaxPast == 2       \* history.past length beyond which Spec saves no more
MaxZ == 4          \* |z| (half units) beyond which the z operations stop
MaxHistSteps == 4  \* operations performed by SpecHist on a full history
MaxChunks == 4     \* pieces an escapeHtml argument is put together from
MaxAlignSteps == 1 \* alignElements / distributeElements calls after a load

(* Program constants *)

HistoryKeep == 49  \* saveToHistory: past.slice(-49)

HistoryCap == HistoryKeep + 1

-----------------------------------------------------------------------------
(* Helpers for arrays *)

Range(seq) == {seq[i] : i \in 1..Len(seq)}

\* Array.prototype.slice(-n): the last n entries, all of them if fewer
SliceLast(seq, n) ==
    IF Len(seq) <= n THEN seq ELSE SubSeq(seq, Len(seq) - n + 1, Len(seq))

\* Math.max(...zs) / Math.min(...zs) of a non-empty set of numbers
SetMax(S) == CHOOSE m \in S : \A n \in S : n <= m
SetMin(S) == CHOOSE m \in S : \A n \in S : m <= n

-----------------------------------------------------------------------------
(* The store *)

NoStyle == <<>>

\* handleDragEnd: the element a palette drop hands to addElement
newElement(type) ==
    [id |-> 0, type |-> type, x |-> 50, y |-> 50,
     width |-> 100, height |-> 30, rotation |-> 0, z |-> 0,
     locked |-> FALSE, hidden |-> FALSE,
     content |-> IF type = "text" THEN <<"T">> ELSE <<>>,
     style |-> NoStyle, dataBinding |-> <<>>]

defaultConfig ==
    [kind |-> "pdf", width |-> 210, height |-> 297, unit |-> "mm", scale |-> 1,
     gridSize |-> 5, showGrid |-> TRUE, showRulers |-> TRUE, snapEnabled |-> TRUE,
     snapToGrid |-> TRUE, snapToGuides |-> TRUE, snapToElements |-> TRUE]

initialState ==
    [config |-> defaultConfig, elements |-> <<>>, selectedIds |-> <<>>,
     history |-> [past |-> <<>>, future |-> <<>>], isDirty |-> FALSE]

Store ==
    [config |-> config, elements |-> elements, selectedIds |-> selectedIds,
     history |-> history, isDirty |-> isDirty]

saveToHistory_keeps_all(s) ==
    [s EXCEPT !.history =
        [past |-> Append(s.history.past, s.elements), future |-> <<>>]]

saveToHistory_keeps_future(s) ==
    [s EXCEPT !.history.past =
        Append(SliceLast(s.history.past, HistoryKeep), s.elements)]

saveToHistory(s) ==
    [s EXCEPT !.history =
        [past |-> Append(SliceLast(s.history.past, HistoryKeep), s.elements),
         future |-> <<>>]]

addElement_keeps_selection(s, element, id) ==
    LET created == [element EXCEPT !.id = id, !.z = 2 * Len(s.elements)]
        s1 == [s EXCEPT !.elements = Append(@, created),
                        !.isDirty = TRUE]
    IN  saveToHistory(s1)

\* z: get().elements.length, in half units
addElement(s, element, id) ==
    LET created == [element EXCEPT !.id = id, !.z = 2 * Len(s.elements)]
        s1 == [s EXCEPT !.elements = Append(@, created),
                        !.selectedIds = <<id>>,
                        !.isDirty = TRUE]
    IN  saveToHistory(s1)

removeElement_keeps_selection(s, id) ==
    LET s1 == saveToHistory(s)
    IN  [s1 EXCEPT !.elements = SelectSeq(@, LAMBDA el : el.id # id),
                   !.isDirty = TRUE]

removeElement_clears_selection(s, id) ==
    LET s1 == saveToHistory(s)
    IN  [s1 EXCEPT !.elements = SelectSeq(@, LAMBDA el : el.id # id),
                   !.selectedIds = <<>>,
                   !.isDirty = TRUE]

removeElement(s, id) ==
    LET s1 == saveToHistory(s)
    IN  [s1 EXCEPT !.elements = SelectSeq(@, LAMBDA el : el.id # id),
                   !.selectedIds = SelectSeq(@, LAMBDA sid : sid # id),
                   !.isDirty = TRUE]

removeElements_saves_each(s, ids) ==
    LET removed == SelectSeq(s.elements, LAMBDA el : el.id \in ids)
        s1 == IF Len(removed) >= 2 THEN saveToHistory(saveToHistory(s))
              ELSE saveToHistory(s)
    IN  [s1 EXCEPT !.elements = SelectSeq(@, LAMBDA el : el.id \notin ids),
                   !.selectedIds = SelectSeq(@, LAMBDA sid : sid \notin ids),
                   !.isDirty = TRUE]

removeElements(s, ids) ==
    LET s1 == saveToHistory(s)
    IN  [s1 EXCEPT !.elements = SelectSeq(@, LAMBDA el : el.id \notin ids),
                   !.selectedIds = SelectSeq(@, LAMBDA sid : sid \notin ids),
                   !.isDirty = TRUE]

duplicates_same_uuid(els, ids, first) ==
    LET toDuplicate == SelectSeq(els, LAMBDA el : el.id \in ids)
    IN  [i \in 1..Len(toDuplicate) |->
            [toDuplicate[i] EXCEPT !.id = first,
                                   !.x = @ + 10,
                                   !.y = @ + 10,
                                   !.z = 2 * (Len(els) + i - 1)]]

\* the clones duplicateElements builds; the i-th clone gets the uuid first + i - 1
duplicates(els, ids, first) ==
    LET toDuplicate == SelectSeq(els, LAMBDA el : el.id \in ids)
    IN  [i \in 1..Len(toDuplicate) |->
            [toDuplicate[i] EXCEPT !.id = first + i - 1,
                                   !.x = @ + 10,
                                   !.y = @ + 10,
                                   !.z = 2 * (Len(els) + i - 1)]]

duplicateElements(s, ids, first) ==
    LET newElements == duplicates(s.elements, ids, first)
        s1 == saveToHistory(s)
    IN  [s1 EXCEPT !.elements = @ \o newElements,
                   !.selectedIds = [i \in 1..Len(newElements) |-> newElements[i].id],
                   !.isDirty = TRUE]

\* the z operations map over the whole list: every element with the id changes
setZ(els, id, z) ==
    [i \in 1..Len(els) |-> IF els[i].id = id THEN [els[i] EXCEPT !.z = z] ELSE els[i]]

Zs(els) == {els[i].z : i \in 1..Len(els)}

bringToFront_to_max(s, id) ==
    IF s.elements = <<>>
    THEN [s EXCEPT !.isDirty = TRUE]
    ELSE [s EXCEPT !.elements = setZ(@, id, SetMax(Zs(s.elements))),
                   !.isDirty = TRUE]

bringToFront(s, id) ==
    IF s.elements = <<>>
    THEN [s EXCEPT !.isDirty = TRUE]
    ELSE [s EXCEPT !.elements = setZ(@, id, SetMax(Zs(s.elements)) + 2),
                   !.isDirty = TRUE]

sendToBack(s, id) ==
    IF s.elements = <<>>
    THEN [s EXCEPT !.isDirty = TRUE]
    ELSE [s EXCEPT !.elements = setZ(@, id, SetMin(Zs(s.elements)) - 2),
                   !.isDirty = TRUE]

\* Array.prototype.find: the first element with the id
find(els, id) ==
    LET hits == SelectSeq(els, LAMBDA el : el.id = id)
    IN  IF hits = <<>> THEN <<>> ELSE <<hits[1]>>

bringForward_marks_dirty(s, id) ==
    LET found == find(s.elements, id)
        above == {z \in Zs(s.elements) : z > found[1].z}
        nextZ == SetMin(above)
    IN  IF found = <<>> THEN s
        ELSE IF above = {} THEN [s EXCEPT !.isDirty = TRUE]
        ELSE [s EXCEPT !.elements = setZ(@, id, nextZ + 1), !.isDirty = TRUE]

bringForward(s, id) ==
    LET found == find(s.elements, id)
        above == {z \in Zs(s.elements) : z > found[1].z}
        nextZ == SetMin(above)
    IN  IF found = <<>> THEN s
        ELSE IF above = {} THEN s
        ELSE [s EXCEPT !.elements = setZ(@, id, nextZ + 1), !.isDirty = TRUE]

sendBackward(s, id) ==
    LET found == find(s.elements, id)
        below == {z \in Zs(s.elements) : z < found[1].z}
        prevZ == SetMax(below)
    IN  IF found = <<>> THEN s
        ELSE IF below = {} THEN s
        ELSE [s EXCEPT !.elements = setZ(@, id, prevZ - 1), !.isDirty = TRUE]

undo_keeps_past(s) ==
    IF Len(s.history.past) = 0 THEN s
    ELSE LET previous == s.history.past[Len(s.history.past)]
         IN  [s EXCEPT !.elements = previous,
                       !.history = [past |-> s.history.past,
                                    future |-> <<s.elements>> \o s.history.future],
                       !.selectedIds = <<>>,
                       !.isDirty = TRUE]

undo_pushes_previous(s) ==
    IF Len(s.history.past) = 0 THEN s
    ELSE LET previous == s.history.past[Len(s.history.past)]
             newPast == SubSeq(s.history.past, 1, Len(s.history.past) - 1)
         IN  [s EXCEPT !.elements = previous,
                       !.history = [past |-> newPast,
                                    future |-> <<previous>> \o s.history.future],
                       !.selectedIds = <<>>,
                       !.isDirty = TRUE]

undo_unguarded(s) ==
    IF Len(s.history.past) = 0 THEN [s EXCEPT !.selectedIds = <<>>, !.isDirty = TRUE]
    ELSE LET previous == s.history.past[Len(s.history.past)]
             newPast == SubSeq(s.history.past, 1, Len(s.history.past) - 1)
         IN  [s EXCEPT !.elements = previous,
                       !.history = [past |-> newPast,
                                    future |-> <<s.elements>> \o s.history.future],
                       !.selectedIds = <<>>,
                       !.isDirty = TRUE]

undo(s) ==
    IF Len(s.history.past) = 0 THEN s
    ELSE LET previous == s.history.past[Len(s.history.past)]
             newPast == SubSeq(s.history.past, 1, Len(s.history.past) - 1)
         IN  [s EXCEPT !.elements = previous,
                       !.history = [past |-> newPast,
                                    future |-> <<s.elements>> \o s.history.future],
                       !.selectedIds = <<>>,
                       !.isDirty = TRUE]

redo_drops_current(s) ==
    IF Len(s.history.future) = 0 THEN s
    ELSE LET next == s.history.future[1]
             newFuture == Tail(s.history.future)
         IN  [s EXCEPT !.elements = next,
                       !.history = [past |-> s.history.past, future |-> newFuture],
                       !.selectedIds = <<>>,
                       !.isDirty = TRUE]

redo(s) ==
    IF Len(s.history.future) = 0 THEN s
    ELSE LET next == s.history.future[1]
             newFuture == Tail(s.history.future)
         IN  [s EXCEPT !.elements = next,
                       !.history = [past |-> Append(s.history.past, s.elements),
                                    future |-> newFuture],
                       !.selectedIds = <<>>,
                       !.isDirty = TRUE]

\* { ...el, ...changes }: the fields named in changes are overwritten
merge(el, changes) ==
    [f \in DOMAIN el |-> IF f \in DOMAIN changes THEN changes[f] ELSE el[f]]

updateElement_saves(s, id, changes) ==
    LET s1 == saveToHistory(s)
    IN  [s1 EXCEPT !.elements = [i \in 1..Len(@) |->
                                   IF @[i].id = id THEN merge(@[i], changes) ELSE @[i]],
                   !.isDirty = TRUE]

updateElement(s, id, changes) ==
    [s EXCEPT !.elements = [i \in 1..Len(@) |->
                              IF @[i].id = id THEN merge(@[i], changes) ELSE @[i]],
              !.isDirty = TRUE]

setSelection(s, ids) == [s EXCEPT !.selectedIds = ids]

addToSelection(s, id) ==
    [s EXCEPT !.selectedIds = IF id \in Range(@) THEN @ ELSE Append(@, id)]

removeFromSelection(s, id) ==
    [s EXCEPT !.selectedIds = SelectSeq(@, LAMBDA sid : sid # id)]

clearSelection(s) == [s EXCEPT !.selectedIds = <<>>]

selectAll(s) ==
    LET unlocked == SelectSeq(s.elements, LAMBDA el : ~el.locked)
    IN  [s EXCEPT !.selectedIds = [i \in 1..Len(unlocked) |-> unlocked[i].id]]

updateConfig(s, changes) ==
    [s EXCEPT !.config = merge(@, changes), !.isDirty = TRUE]

setDirty(s, dirty) == [s EXCEPT !.isDirty = dirty]

\* set(initialState): every field of DesignerState is overwritten
reset(s) == initialState

loadElements_keeps_history(s, els) ==
    [s EXCEPT !.elements = els, !.selectedIds = <<>>, !.isDirty = FALSE]

loadElements(s, els) ==
    [s EXCEPT !.elements = els,
              !.selectedIds = <<>>,
              !.history = [past |-> <<>>, future |-> <<>>],
              !.isDirty = FALSE]

\* updates: an array of [id, changes]; new Map(...) keeps the last entry of an id
updateElements(s, updates) ==
    LET changesOf(id) ==
            LET at == {k \in 1..Len(updates) : updates[k].id = id}
            IN  updates[SetMax(at)].changes
        updated == {updates[k].id : k \in 1..Len(updates)}
    IN  [s EXCEPT !.elements = [i \in 1..Len(@) |->
                                  IF @[i].id \in updated
                                  THEN merge(@[i], changesOf(@[i].id)) ELSE @[i]],
                  !.isDirty = TRUE]

\* elements.filter((el) => ids.includes(el.id))
selectedOf(els, ids) == SelectSeq(els, LAMBDA el : el.id \in ids)

\* n / 2 of a number that is a whole multiple of two units
half(n) == n \div 2

\* alignElements: referenceValue; with nothing selected Math.min() and
\* Math.max() give infinities that no update uses, 0 stands for them
referenceValue(selected, alignment) ==
    LET xs == {selected[i].x : i \in 1..Len(selected)}
        rights == {selected[i].x + selected[i].width : i \in 1..Len(selected)}
        ys == {selected[i].y : i \in 1..Len(selected)}
        bottoms == {selected[i].y + selected[i].height : i \in 1..Len(selected)}
    IN  IF selected = <<>> THEN 0
        ELSE CASE alignment = "left" -> SetMin(xs)
               [] alignment = "center" -> half(SetMin(xs) + SetMax(rights))
               [] alignment = "right" -> SetMax(rights)
               [] alignment = "top" -> SetMin(ys)
               [] alignment = "middle" -> half(SetMin(ys) + SetMax(bottoms))
               [] alignment = "bottom" -> SetMax(bottoms)

alignChanges_edge_only(el, alignment, reference) ==
    IF alignment \in {"left", "center", "right"} THEN [x |-> reference]
    ELSE [y |-> reference]

alignChanges(el, alignment, reference) ==
    CASE alignment = "left" -> [x |-> reference]
      [] alignment = "center" -> [x |-> reference - half(el.width)]
      [] alignment = "right" -> [x |-> reference - el.width]
      [] alignment = "top" -> [y |-> reference]
      [] alignment = "middle" -> [y |-> reference - half(el.height)]
      [] alignment = "bottom" -> [y |-> reference - el.height]

\* ids.length is the number of ids given, whether they name elements or not
alignElements(s, ids, alignment) ==
    IF Cardinality(ids) < 2 THEN s
    ELSE LET selected == selectedOf(s.elements, ids)
             reference == referenceValue(selected, alignment)
             updates == [i \in 1..Len(selected) |->
                            [id |-> selected[i].id,
                             changes |-> alignChanges(selected[i], alignment, reference)]]
         IN  updateElements(saveToHistory(s), updates)

sortByPosition_unsorted(els, axis) == els

\* Array.prototype.sort((a, b) => a.x - b.x) or by y: stable
RECURSIVE sortByPosition(_, _)
sortByPosition(els, axis) ==
    IF els = <<>> THEN <<>>
    ELSE LET last == els[Len(els)]
             sorted == sortByPosition(SubSeq(els, 1, Len(els) - 1), axis)
             keep == Cardinality({i \in 1..Len(sorted) : sorted[i][axis] <= last[axis]})
         IN  SubSeq(sorted, 1, keep) \o <<last>> \o SubSeq(sorted, keep + 1, Len(sorted))

RECURSIVE sumOf(_, _)
sumOf(els, extent) ==
    IF els = <<>> THEN 0 ELSE Head(els)[extent] + sumOf(Tail(els), extent)

\* distributeElements reads last.x of an empty selection: TypeError
distributeThrows(s, ids) ==
    Cardinality(ids) >= 3 /\ selectedOf(s.elements, ids) = <<>>

\* with one element selected the gap is 0 / 0 = NaN, which is added to
\* currentPos after the only position was taken: 0 stands for it
distributeElements(s, ids, direction) ==
    IF Cardinality(ids) < 3 \/ distributeThrows(s, ids) THEN s
    ELSE LET axis == IF direction = "horizontal" THEN "x" ELSE "y"
             extent == IF direction = "horizontal" THEN "width" ELSE "height"
             selected == sortByPosition(selectedOf(s.elements, ids), axis)
             first == selected[1]
             last == selected[Len(selected)]
             totalSpace == last[axis] + last[extent] - first[axis]
             totalSize == sumOf(selected, extent)
             gap == IF Len(selected) = 1 THEN 0
                    ELSE (totalSpace - totalSize) \div (Len(selected) - 1)
             currentPos(i) == first[axis] + sumOf(SubSeq(selected, 1, i - 1), extent)
                              + (i - 1) * gap
             updates == [i \in 1..Len(selected) |->
                            [id |-> selected[i].id,
                             changes |-> IF direction = "horizontal"
                                         THEN [x |-> currentPos(i)]
                                         ELSE [y |-> currentPos(i)]]]
         IN  updateElements(saveToHistory(s), updates)

-----------------------------------------------------------------------------
(* escapeHtml: strings are sequences of one-character strings *)

\* [^}]+ tried at index c: the index of the last character of the longest run
\* of characters other than "}" that starts at c (c - 1 when the run is empty)
RECURSIVE contentEnd(_, _)
contentEnd(t, c) ==
    IF c > Len(t) \/ t[c] = "}" THEN c - 1 ELSE contentEnd(t, c + 1)

\* [^}]+\}\}\}? tried at index c: the index of the last character matched, 0 if
\* it does not match; the closing third brace is taken when it is there
closeAt(t, c) ==
    LET e == contentEnd(t, c)
    IN  IF e >= c /\ e + 2 <= Len(t) /\ t[e + 1] = "}" /\ t[e + 2] = "}"
        THEN IF e + 3 <= Len(t) /\ t[e + 3] = "}" THEN e + 3 ELSE e + 2
        ELSE 0

\* \{\{\{?[^}]+\}\}\}? tried at index i: the optional third "{" is taken first,
\* and given back when the rest does not match with it taken
matchAt(t, i) ==
    IF i + 1 <= Len(t) /\ t[i] = "{" /\ t[i + 1] = "{"
    THEN IF i + 2 <= Len(t) /\ t[i + 2] = "{" /\ closeAt(t, i + 3) # 0
         THEN closeAt(t, i + 3)
         ELSE closeAt(t, i + 2)
    ELSE 0

\* hbsPattern.exec(text) with the given lastIndex (0-based): the 1-based index
\* of the first match at or after it, 0 for null
RECURSIVE exec(_, _)
exec(t, lastIndex) ==
    IF lastIndex + 1 > Len(t) THEN 0
    ELSE IF matchAt(t, lastIndex + 1) # 0 THEN lastIndex + 1
    ELSE exec(t, lastIndex + 1)

\* the while loop and the trailing slice: the parts array
RECURSIVE parts(_, _)
parts(t, lastIndex) ==
    LET i == exec(t, lastIndex)
    IN  IF i = 0
        THEN IF lastIndex < Len(t)
             THEN <<[type |-> "text", value |-> SubSeq(t, lastIndex + 1, Len(t))]>>
             ELSE <<>>
        ELSE (IF i - 1 > lastIndex
              THEN <<[type |-> "text", value |-> SubSeq(t, lastIndex + 1, i - 1)]>>
              ELSE <<>>)
             \o <<[type |-> "hbs", value |-> SubSeq(t, i, matchAt(t, i))]>>
             \o parts(t, matchAt(t, i))

\* String.prototype.replace(/ch/g, to)
RECURSIVE replace(_, _, _)
replace(value, ch, to) ==
    IF value = <<>> THEN <<>>
    ELSE (IF Head(value) = ch THEN to ELSE <<Head(value)>>) \o replace(Tail(value), ch, to)

\* the four replace calls applied to a text part, in the order of the source
escapeText(value) ==
    replace(replace(replace(replace(value,
        "&", <<"&", "a", "m", "p", ";">>),
        "<", <<"&", "l", "t", ";">>),
        ">", <<"&", "g", "t", ";">>),
        "\"", <<"&", "q", "u", "o", "t", ";">>)

\* parts.map(...).join("")
RECURSIVE joinParts(_)
joinParts(ps) ==
    IF ps = <<>> THEN <<>>
    ELSE (IF Head(ps).type = "hbs" THEN Head(ps).value ELSE escapeText(Head(ps).value))
         \o joinParts(Tail(ps))

escapeHtml(t) == joinParts(parts(t, 0))

-----------------------------------------------------------------------------
(* compileToPdfHtml: the output is a sequence of strings, the characters that *)
(* come from escapeHtml one by one, the rest in longer pieces                 *)

\* the id string of an element
idText(id) == "uuid-" \o ToString(id)

\* Number.prototype.toFixed(2) of a whole number of millimetres
toFixed2(n) == ToString(n) \o ".00"

\* `${element.z}`, z in half units
zText(z) ==
    LET a == IF z < 0 THEN -z ELSE z
    IN  (IF z < 0 THEN "-" ELSE "") \o ToString(a \div 2)
        \o (IF a % 2 = 1 THEN ".5" ELSE "")

\* styles.join(";")
RECURSIVE joinStyles(_)
joinStyles(styles) ==
    IF styles = <<>> THEN ""
    ELSE IF Len(styles) = 1 THEN styles[1]
    ELSE styles[1] \o ";" \o joinStyles(Tail(styles))

\* elementStyle.key, "" when the key is absent (falsy either way)
styleOf(element, key) ==
    IF key \in DOMAIN element.style THEN element.style[key] ELSE ""

\* styles.push(line) under `if (value)`
pushIf(value, line) == IF value # "" THEN <<line>> ELSE <<>>

baseStyles_swapped(element) ==
    <<"position:absolute",
      "left:" \o toFixed2(element.y) \o "mm",
      "top:" \o toFixed2(element.x) \o "mm",
      "width:" \o toFixed2(element.width) \o "mm",
      "height:" \o toFixed2(element.height) \o "mm",
      "box-sizing:border-box">>
    \o (IF element.rotation # 0
        THEN <<"transform:rotate(" \o ToString(element.rotation) \o "deg)",
               "transform-origin:center center">>
        ELSE <<>>)
    \o <<"z-index:" \o zText(element.z)>>

baseStyles(element) ==
    <<"position:absolute",
      "left:" \o toFixed2(element.x) \o "mm",
      "top:" \o toFixed2(element.y) \o "mm",
      "width:" \o toFixed2(element.width) \o "mm",
      "height:" \o toFixed2(element.height) \o "mm",
      "box-sizing:border-box">>
    \o (IF element.rotation # 0
        THEN <<"transform:rotate(" \o ToString(element.rotation) \o "deg)",
               "transform-origin:center center">>
        ELSE <<>>)
    \o <<"z-index:" \o zText(element.z)>>

\* `  <tag data-id="${element.id}" style="${styles.join(";")}${tail}`
openTag(tag, element, styles, tail) ==
    "  <" \o tag \o " data-id=\"" \o idText(element.id) \o "\" style=\""
    \o joinStyles(styles) \o tail

compileTextElement(element, base) ==
    LET styles ==
            base
            \o pushIf(styleOf(element, "fontFamily"),
                      "font-family:" \o styleOf(element, "fontFamily"))
            \o (IF styleOf(element, "fontSizePt") # ""
                THEN <<"font-size:" \o styleOf(element, "fontSizePt") \o "pt">>
                ELSE <<"font-size:12pt">>)
            \o pushIf(styleOf(element, "bold"), "font-weight:bold")
            \o pushIf(styleOf(element, "italic"), "font-style:italic")
            \o pushIf(styleOf(element, "underline"), "text-decoration:underline")
            \o pushIf(styleOf(element, "color"), "color:" \o styleOf(element, "color"))
            \o pushIf(styleOf(element, "align"), "text-align:" \o styleOf(element, "align"))
            \o pushIf(styleOf(element, "lineHeight"),
                      "line-height:" \o styleOf(element, "lineHeight"))
            \o <<"overflow:hidden", "white-space:pre-wrap", "word-wrap:break-word">>
    IN  <<openTag("div", element, styles, "\">")>>
        \o escapeHtml(element.content)
        \o <<"</div>">>

\* (elementStyle.key as T) || fallback
styleOr(element, key, fallback) ==
    IF styleOf(element, key) # "" THEN styleOf(element, key) ELSE fallback

compileRectElement(element, base) ==
    LET styles ==
            base
            \o <<"border:" \o styleOr(element, "strokeMm", "0.3") \o "mm solid "
                 \o styleOr(element, "strokeColor", "#000000")>>
            \o pushIf(styleOf(element, "fillColor"),
                      "background:" \o styleOf(element, "fillColor"))
            \o pushIf(styleOf(element, "radiusMm"),
                      "border-radius:" \o styleOf(element, "radiusMm") \o "mm")
    IN  <<openTag("div", element, styles, "\"></div>")>>

compileLineElement(element, base) ==
    LET styles ==
            base
            \o <<"border-top:" \o styleOr(element, "strokeMm", "0.3") \o "mm solid "
                 \o styleOr(element, "strokeColor", "#000000"),
                 "height:0">>
    IN  <<openTag("div", element, styles, "\"></div>")>>

\* the functions that push a warning return the html and the warnings array;
\* the two CJK characters of the placeholder are written as their code points
compileImageElement(element, base, warnings) ==
    IF element.content = <<>>
    THEN [html |-> <<openTag("div", element,
                             base \o <<"background:#f0f0f0", "display:flex",
                                       "align-items:center", "justify-content:center">>,
                             "\">U+56FE U+7247</div>")>>,
          warnings |-> Append(warnings,
                              [code |-> "EMPTY_IMAGE_SRC",
                               message |-> "Image element has no source",
                               elementId |-> element.id])]
    ELSE [html |-> <<"  <img data-id=\"" \o idText(element.id) \o "\" src=\"">>
                   \o escapeHtml(element.content)
                   \o <<"\" style=\"" \o joinStyles(base) \o ";object-fit:"
                        \o styleOr(element, "objectFit", "contain") \o "\" />">>,
          warnings |-> warnings]

compileBarcodeElement_silent(element, base, warnings) ==
    LET barcodeData == IF element.content # <<>> THEN element.content
                       ELSE <<"1", "2", "3", "4", "5", "6", "7", "8", "9">>
        styles == base \o <<"display:flex", "align-items:center",
                            "justify-content:center", "background:#fafafa",
                            "border:1px dashed #ccc", "font-family:monospace",
                            "font-size:10pt">>
    IN  [html |-> <<openTag("div", element, styles, "\">||||| ")>>
                  \o escapeHtml(barcodeData)
                  \o <<" |||||</div>">>,
         warnings |-> warnings]

compileBarcodeElement(element, base, warnings) ==
    LET barcodeData == IF element.content # <<>> THEN element.content
                       ELSE <<"1", "2", "3", "4", "5", "6", "7", "8", "9">>
        styles == base \o <<"display:flex", "align-items:center",
                            "justify-content:center", "background:#fafafa",
                            "border:1px dashed #ccc", "font-family:monospace",
                            "font-size:10pt">>
    IN  [html |-> <<openTag("div", element, styles, "\">||||| ")>>
                  \o escapeHtml(barcodeData)
                  \o <<" |||||</div>">>,
         warnings |-> Append(warnings,
                             [code |-> "BARCODE_PLACEHOLDER",
                              message |-> "Barcode element compiled as placeholder. Use JsBarcode for actual barcode rendering.",
                              elementId |-> element.id])]

compileQrcodeElement(element, base, warnings) ==
    LET qrData == IF element.content # <<>> THEN element.content
                  ELSE <<"h", "t", "t", "p", "s", ":", "/", "/", "e", "x", "a", "m",
                         "p", "l", "e", ".", "c", "o", "m">>
        styles == base \o <<"display:flex", "align-items:center",
                            "justify-content:center", "background:#fafafa",
                            "border:1px dashed #ccc", "font-size:10pt">>
    IN  [html |-> <<openTag("div", element, styles, "\">[ QR: ")>>
                  \o escapeHtml(qrData)
                  \o <<" ]</div>">>,
         warnings |-> Append(warnings,
                             [code |-> "QRCODE_PLACEHOLDER",
                              message |-> "QR code element compiled as placeholder. Use qrcode library for actual QR code rendering.",
                              elementId |-> element.id])]

\* String.prototype.repeat
repeat(ch, n) == [i \in 1..n |-> ch]

\* the `$${line}` of the template writes a "$" and then the line
compileHlineElement(element, base) ==
    LET styles == base \o <<"display:flex", "align-items:center",
                            "justify-content:center", "overflow:hidden",
                            "font-family:monospace", "letter-spacing:2px",
                            "color:#666">>
        char == IF element.content # <<>> THEN element.content[1] ELSE "-"
        repeatCount == element.width * 3
    IN  <<openTag("div", element, styles, "\">$")>>
        \o repeat(char, repeatCount)
        \o <<"</div>">>

wrapWithCondition(element, html) ==
    IF element.dataBinding # <<>>
    THEN <<"{{#if ">> \o element.dataBinding \o <<"}}", "\n">> \o html
         \o <<"\n", "{{/if}}">>
    ELSE html

\* compileElement(element, warnings): the html and the warnings array after it
compileElement(element, warnings) ==
    LET base == baseStyles(element)
        pure(html) == [html |-> wrapWithCondition(element, html), warnings |-> warnings]
        pushing(r) == [html |-> wrapWithCondition(element, r.html), warnings |-> r.warnings]
    IN  CASE element.type = "text" -> pure(compileTextElement(element, base))
          [] element.type = "rect" -> pure(compileRectElement(element, base))
          [] element.type = "line" -> pure(compileLineElement(element, base))
          [] element.type = "image" -> pushing(compileImageElement(element, base, warnings))
          [] element.type = "barcode" -> pushing(compileBarcodeElement(element, base, warnings))
          [] element.type = "qrcode" -> pushing(compileQrcodeElement(element, base, warnings))
          [] element.type = "hline" -> pure(compileHlineElement(element, base))
          [] OTHER ->
                [html |-> <<"<!-- Unknown element type: " \o element.type \o " -->">>,
                 warnings |-> Append(warnings,
                                     [code |-> "UNKNOWN_ELEMENT_TYPE",
                                      message |-> "Unknown element type: " \o element.type,
                                      elementId |-> element.id])]

\* Array.prototype.sort((a, b) => a.z - b.z): stable
RECURSIVE sortByZ(_)
sortByZ(els) ==
    IF els = <<>> THEN <<>>
    ELSE LET last == els[Len(els)]
             sorted == sortByZ(SubSeq(els, 1, Len(els) - 1))
             keep == Cardinality({i \in 1..Len(sorted) : sorted[i].z <= last.z})
         IN  SubSeq(sorted, 1, keep) \o <<last>> \o SubSeq(sorted, keep + 1, Len(sorted))

visibleElements_unfiltered(els) == sortByZ(els)

visibleElements_unsorted(els) == SelectSeq(els, LAMBDA el : ~el.hidden)

visibleElements_descending(els) ==
    LET sorted == sortByZ(SelectSeq(els, LAMBDA el : ~el.hidden))
    IN  [i \in 1..Len(sorted) |-> sorted[Len(sorted) + 1 - i]]

visibleElements(els) == sortByZ(SelectSeq(els, LAMBDA el : ~el.hidden))

elementsAfterCompile_sorted(els) == sortByZ(els)

\* the array handed to compileToPdfHtml after the call: filter() returns a new
\* array, and sort() sorts that one in place
elementsAfterCompile(els) ==
    LET filtered == SelectSeq(els, LAMBDA el : ~el.hidden)
        sorted == sortByZ(filtered)
    IN  els

RECURSIVE compileAll_aborting(_, _)
compileAll_aborting(els, warnings) ==
    IF els = <<>> \/ Head(els).type = "box" THEN [html |-> <<>>, warnings |-> warnings]
    ELSE LET first == compileElement(Head(els), warnings)
             rest == compileAll_aborting(Tail(els), first.warnings)
         IN  [html |-> first.html
                       \o (IF Len(els) > 1 THEN <<"\n">> ELSE <<>>)
                       \o rest.html,
              warnings |-> rest.warnings]

\* visibleElements.map(el => compileElement(el, warnings)).join("\n")
RECURSIVE compileAll(_, _)
compileAll(els, warnings) ==
    IF els = <<>> THEN [html |-> <<>>, warnings |-> warnings]
    ELSE LET first == compileElement(Head(els), warnings)
             rest == compileAll(Tail(els), first.warnings)
         IN  [html |-> first.html
                       \o (IF Len(els) > 1 THEN <<"\n">> ELSE <<>>)
                       \o rest.html,
              warnings |-> rest.warnings]

\* the compilation, the warnings array starting as given
compileFrom(els, cfg, warnings) ==
    LET all == compileAll(visibleElements(els), warnings)
    IN  [kind |-> "pdf",
         handlebars |->
            <<"<div class=\"rprint-page\" style=\"position:relative;width:"
              \o ToString(cfg.width) \o "mm;height:" \o ToString(cfg.height)
              \o "mm;overflow:hidden;\">", "\n">>
            \o all.html
            \o <<"\n", "</div>">>,
         printHint |-> [paperSize |-> ToString(cfg.width) \o "mm "
                                      \o ToString(cfg.height) \o "mm"],
         warnings |-> all.warnings]

compileToPdfHtml_shared_warnings(els, cfg) ==
    compileFrom(els, cfg, IF compiled = <<>> THEN <<>> ELSE compiled[1].result.warnings)

\* const warnings = [] starts every compilation
compileToPdfHtml(els, cfg) == compileFrom(els, cfg, <<>>)

-----------------------------------------------------------------------------
(* Calling the store's actions *)

Install(s) ==
    /\ elements' = s.elements
    /\ selectedIds' = s.selectedIds
    /\ history' = s.history
    /\ isDirty' = s.isDirty
    /\ config' = s.config

\* The call is recorded, newest first: its name, the ids it was given and the
\* store as it was before the call.  The record keeps the newest `depth` calls:
\* of the call before the newest the element list it found is kept, of older
\* calls the name.
older(op, k) ==
    IF k = 1 THEN op
    ELSE IF k = 2
    THEN [name |-> op.name, ids |-> op.ids,
          before |-> [elements |-> op.before.elements]]
    ELSE [name |-> op.name, ids |-> {}, before |-> [elements |-> <<>>]]

Call(name, ids, s, depth) ==
    /\ Install(s)
    /\ ops' = LET all == <<[name |-> name, ids |-> ids, before |-> Store]>> \o ops
                  kept == IF Len(all) < depth THEN Len(all) ELSE depth
              IN  [k \in 1..kept |-> older(all[k], k)]

ElementIds == {elements[i].id : i \in 1..Len(elements)}

\* ids a caller may name: every id handed out so far and one never handed out
KnownIds == 1..(nextId - 1) \cup {0}

\* the palette items dropped in a run
PaletteTypes == {"text"}

DoAddElement(depth) ==
    /\ nextId <= MaxIds
    /\ \E type \in PaletteTypes :
          Call("addElement", {nextId}, addElement(Store, newElement(type), nextId), depth)
    /\ nextId' = nextId + 1

DoRemoveElement(depth) ==
    /\ \E id \in KnownIds : Call("removeElement", {id}, removeElement(Store, id), depth)
    /\ UNCHANGED nextId

DoRemoveElements(depth) ==
    /\ \E ids \in SUBSET ElementIds :
          /\ Cardinality(ids) # 1
          /\ Call("removeElements", ids, removeElements(Store, ids), depth)
    /\ UNCHANGED nextId

DoDuplicateElements(depth) ==
    \E ids \in SUBSET ElementIds :
       /\ nextId + Cardinality(ids) - 1 <= MaxIds
       /\ Call("duplicateElements", ids, duplicateElements(Store, ids, nextId), depth)
       /\ nextId' = nextId + Cardinality(ids)

DoUndo(depth) == Call("undo", {}, undo(Store), depth) /\ UNCHANGED nextId

DoRedo(depth) == Call("redo", {}, redo(Store), depth) /\ UNCHANGED nextId

DoSaveToHistory(depth) == Call("saveToHistory", {}, saveToHistory(Store), depth) /\ UNCHANGED nextId

ZInRange(s) == \A z \in Zs(s.elements) : -MaxZ <= z /\ z <= MaxZ

DoBringToFront(depth) ==
    /\ \E id \in KnownIds :
          /\ ZInRange(bringToFront(Store, id))
          /\ Call("bringToFront", {id}, bringToFront(Store, id), depth)
    /\ UNCHANGED nextId

DoSendToBack(depth) ==
    /\ \E id \in KnownIds :
          /\ ZInRange(sendToBack(Store, id))
          /\ Call("sendToBack", {id}, sendToBack(Store, id), depth)
    /\ UNCHANGED nextId

DoBringForward(depth) ==
    /\ \E id \in KnownIds :
          /\ ZInRange(bringForward(Store, id))
          /\ Call("bringForward", {id}, bringForward(Store, id), depth)
    /\ UNCHANGED nextId

DoSendBackward(depth) ==
    /\ \E id \in KnownIds :
          /\ ZInRange(sendBackward(Store, id))
          /\ Call("sendBackward", {id}, sendBackward(Store, id), depth)
    /\ UNCHANGED nextId

-----------------------------------------------------------------------------
(* Spec: the designer store from its initial state *)

NoResult == [kind |-> "none"]

NotEscaped == [done |-> FALSE, value |-> <<>>]

idleVars == <<steps, text, escaped, result, compiled>>

InitIdle ==
    /\ steps = 0
    /\ text = <<>>
    /\ escaped = NotEscaped
    /\ result = NoResult
    /\ compiled = <<>>

InitStore(s) ==
    /\ elements = s.elements
    /\ selectedIds = s.selectedIds
    /\ history = s.history
    /\ isDirty = s.isDirty
    /\ config = s.config
    /\ ops = <<>>

Init ==
    /\ InitStore(initialState)
    /\ nextId = 1
    /\ InitIdle

CanSave == Len(history.past) < MaxPast

AddElement == CanSave /\ DoAddElement(3) /\ UNCHANGED idleVars

RemoveElement == CanSave /\ DoRemoveElement(3) /\ UNCHANGED idleVars

RemoveElements == CanSave /\ DoRemoveElements(3) /\ UNCHANGED idleVars

DuplicateElements == CanSave /\ DoDuplicateElements(3) /\ UNCHANGED idleVars

Undo == DoUndo(3) /\ UNCHANGED idleVars

Redo == DoRedo(3) /\ UNCHANGED idleVars

BringToFront == DoBringToFront(1) /\ UNCHANGED idleVars

SendToBack == DoSendToBack(1) /\ UNCHANGED idleVars

BringForward == DoBringForward(1) /\ UNCHANGED idleVars

SendBackward == DoSendBackward(1) /\ UNCHANGED idleVars

Next ==
    \/ AddElement
    \/ RemoveElement
    \/ RemoveElements
    \/ DuplicateElements
    \/ Undo
    \/ Redo

Spec == Init /\ [][Next]_vars

-----------------------------------------------------------------------------
(* SpecZ: the z operations on a loaded document of three elements whose z    *)
(* values are pairwise distinct                                              *)

\* the documents loadElements is given: ids 1..3, z in half units
ZDocuments ==
    {[i \in 1..3 |-> [newElement("rect") EXCEPT !.id = i, !.z = zs[i]]] :
        zs \in {f \in [1..3 -> 0..(MaxZ - 1)] : \A i, j \in 1..3 : i # j => f[i] # f[j]}}

InitZ ==
    /\ \E doc \in ZDocuments : InitStore(loadElements(initialState, doc))
    /\ nextId = 4
    /\ InitIdle

NextZ ==
    \/ BringToFront
    \/ SendToBack
    \/ BringForward
    \/ SendBackward

SpecZ == InitZ /\ [][NextZ]_vars

-----------------------------------------------------------------------------
(* SpecHist: a store whose history is two snapshots short of full.  The      *)
(* state is the one reached by loadElements of one element followed, for     *)
(* i = 1..48, by updateElement(1, {x: i}) and saveToHistory().               *)

HistElement(i) == [newElement("text") EXCEPT !.id = 1, !.x = i]

HistFilled ==
    [initialState EXCEPT
        !.elements = <<HistElement(HistoryKeep - 1)>>,
        !.history = [past |-> [i \in 1..(HistoryKeep - 1) |-> <<HistElement(i)>>],
                     future |-> <<>>],
        !.isDirty = TRUE]

InitHist ==
    /\ InitStore(HistFilled)
    /\ nextId = 2
    /\ steps = 0
    /\ text = <<>>
    /\ escaped = NotEscaped
    /\ result = NoResult
    /\ compiled = <<>>

Count == steps < MaxHistSteps /\ steps' = steps + 1

histIdle == <<text, escaped, result, compiled>>

HistSaveToHistory == Count /\ DoSaveToHistory(1) /\ UNCHANGED histIdle

HistAddElement == Count /\ DoAddElement(1) /\ UNCHANGED histIdle

HistRemoveElement == Count /\ DoRemoveElement(1) /\ UNCHANGED histIdle

HistDuplicateElements == Count /\ DoDuplicateElements(1) /\ UNCHANGED histIdle

HistUndo == Count /\ DoUndo(1) /\ UNCHANGED histIdle

HistRedo == Count /\ DoRedo(1) /\ UNCHANGED histIdle

NextHist ==
    \/ HistSaveToHistory
    \/ HistAddElement
    \/ HistRemoveElement
    \/ HistDuplicateElements
    \/ HistUndo
    \/ HistRedo

SpecHist == InitHist /\ [][NextHist]_vars

-----------------------------------------------------------------------------
(* SpecEscape: escapeHtml applied to one string *)

\* the pieces the arguments are put together from
Chunks ==
    {<<"{", "{">>, <<"}", "}">>, <<"{">>, <<"}">>,
     <<"&">>, <<"<">>, <<">">>, <<"\"">>, <<"a">>}

RECURSIVE flatten(_)
flatten(cs) == IF cs = <<>> THEN <<>> ELSE Head(cs) \o flatten(Tail(cs))

Texts == {flatten(cs) : cs \in UNION {[1..n -> Chunks] : n \in 0..MaxChunks}}

InitEscape ==
    /\ InitStore(initialState)
    /\ nextId = 1
    /\ steps = 0
    /\ text \in Texts
    /\ escaped = NotEscaped
    /\ result = NoResult
    /\ compiled = <<>>

EscapeHtml ==
    /\ ~escaped.done
    /\ escaped' = [done |-> TRUE, value |-> escapeHtml(text)]
    /\ UNCHANGED <<storeVars, nextId, ops, steps, text, result, compiled>>

NextEscape == EscapeHtml

SpecEscape == InitEscape /\ [][NextEscape]_vars

-----------------------------------------------------------------------------
(* SpecCompile: loaded documents of two elements, some hidden, are compiled  *)

\* the element types of CanvasElement and one that compileElement does not know
CompiledTypes == {"text", "rect", "line", "image", "barcode", "qrcode", "hline", "box"}

compileElementOf(id, type, z, hidden) ==
    [newElement(type) EXCEPT
        !.id = id, !.z = z, !.x = 10 * id, !.y = 5, !.width = 2, !.height = 4,
        !.hidden = hidden,
        !.content = IF type \in {"text", "barcode"} THEN <<"<", "{", "{", "a", "}", "}">>
                    ELSE <<>>,
        !.dataBinding = IF id = 1 THEN <<"c">> ELSE <<>>]

\* the documents loaded: the first element lies above or below the second
\* and documents whose first element carries text of its own: a literal
\* character, or one in front of an expression
FilledDocuments ==
    {<<[compileElementOf(1, t1, 1, FALSE) EXCEPT !.content = content],
       compileElementOf(2, "rect", 2, h2)>> :
        t1 \in {"text", "image", "barcode", "qrcode", "hline"},
        content \in {<<"<">>, <<"&", "{", "{", "a", "}", "}">>},
        h2 \in BOOLEAN}

CompileDocuments ==
    {<<compileElementOf(1, t1, z1, h1), compileElementOf(2, t2, 3 - z1, h2)>> :
        t1 \in CompiledTypes, t2 \in CompiledTypes, z1 \in {1, 2},
        h1 \in BOOLEAN, h2 \in BOOLEAN}
    \cup FilledDocuments

InitCompile ==
    /\ \E doc \in CompileDocuments : InitStore(loadElements(initialState, doc))
    /\ nextId = 3
    /\ InitIdle

\* handlePreview, handleCopyTemplate: the store's elements and config are
\* compiled; the last two compilations are kept, newest first
Compile ==
    /\ result' = compileToPdfHtml(elements, config)
    /\ compiled' = <<[elements |-> elements, config |-> config,
                      selectedIds |-> selectedIds, history |-> history,
                      isDirty |-> isDirty,
                      result |-> compileToPdfHtml(elements, config)]>>
                   \o (IF compiled = <<>> THEN <<>> ELSE <<compiled[1]>>)
    /\ UNCHANGED <<storeVars, nextId, ops, steps, text, escaped>>

compileIdle == <<steps, text, escaped, result, compiled>>

\* the properties panel's visibility switch: updateElement(id, {hidden})
ToggleHidden ==
    /\ \E i \in 1..Len(elements) :
          Call("updateElement", {elements[i].id},
               updateElement(Store, elements[i].id, [hidden |-> ~elements[i].hidden]), 0)
    /\ UNCHANGED <<nextId, compileIdle>>

NextCompile ==
    \/ Compile
    \/ ToggleHidden

SpecCompile == InitCompile /\ [][NextCompile]_vars

-----------------------------------------------------------------------------
(* SpecPurity: the same snapshots are compiled from stores that differ in    *)
(* selection, history and dirty flag                                         *)

PurityDocuments ==
    {<<compileElementOf(1, t1, 2, FALSE), compileElementOf(2, t2, 1, FALSE)>> :
        t1 \in {"text", "image"}, t2 \in {"barcode", "box"}}

InitPurity ==
    /\ \E doc \in PurityDocuments : InitStore(loadElements(initialState, doc))
    /\ nextId = 3
    /\ InitIdle

\* the paper widths updateConfig is given
PaperWidths == {80, 210}

UpdateConfig ==
    /\ \E w \in PaperWidths :
          Call("updateConfig", {}, updateConfig(Store, [width |-> w]), 0)
    /\ UNCHANGED <<nextId, compileIdle>>

SelectAll ==
    /\ Call("selectAll", {}, selectAll(Store), 0)
    /\ UNCHANGED <<nextId, compileIdle>>

SetDirty ==
    /\ \E dirty \in BOOLEAN : Call("setDirty", {}, setDirty(Store, dirty), 0)
    /\ UNCHANGED <<nextId, compileIdle>>

PuritySaveToHistory == CanSave /\ DoSaveToHistory(0) /\ UNCHANGED compileIdle

NextPurity ==
    \/ Compile
    \/ UpdateConfig
    \/ SelectAll
    \/ SetDirty
    \/ PuritySaveToHistory

SpecPurity == InitPurity /\ [][NextPurity]_vars

-----------------------------------------------------------------------------
(* SpecAlign: alignElements and distributeElements on loaded documents of    *)
(* three elements.  Every call halves a number at most once, so positions    *)
(* and sizes are kept in units of 1 / AlignUnit mm and stay whole.           *)

AlignUnit == 2 ^ MaxAlignSteps

\* x or y of the three elements, in mm
AlignPositions == {<<10, 20, 5>>, <<0, 30, 100>>, <<0, 5, 8>>, <<0, 0, 10>>}

\* width or height of the three elements, in mm
AlignSizes == {<<10, 10, 10>>, <<10, 20, 30>>}

alignElementOf(id, x, y, width, height) ==
    [newElement("rect") EXCEPT
        !.id = id, !.z = 2 * (id - 1),
        !.x = x * AlignUnit, !.y = y * AlignUnit,
        !.width = width * AlignUnit, !.height = height * AlignUnit]

AlignDocuments ==
    {[i \in 1..3 |-> alignElementOf(i, xs[i], ys[i], ws[i], ws[4 - i])] :
        xs \in AlignPositions, ys \in {<<0, 30, 100>>, <<20, 5, 10>>}, ws \in AlignSizes}

InitAlign ==
    /\ \E doc \in AlignDocuments : InitStore(loadElements(initialState, doc))
    /\ nextId = 4
    /\ InitIdle

Alignments == {"left", "center", "right", "top", "middle", "bottom"}

Directions == {"horizontal", "vertical"}

\* the ids a toolbar call passes: ids of elements and an id that names none
AlignIds == SUBSET (ElementIds \cup {0})

\* the call is recorded with its argument and whether it threw
CallWith(name, ids, arg, threw, s) ==
    /\ Install(s)
    /\ ops' = <<[name |-> name, ids |-> ids, arg |-> arg, threw |-> threw,
                 before |-> Store]>>

alignIdle == <<nextId, text, escaped, result, compiled>>

AlignElements ==
    /\ steps < MaxAlignSteps
    /\ steps' = steps + 1
    /\ \E ids \in AlignIds, alignment \in Alignments :
          CallWith("alignElements", ids, alignment, FALSE,
                   alignElements(Store, ids, alignment))
    /\ UNCHANGED alignIdle

DistributeElements ==
    /\ steps < MaxAlignSteps
    /\ steps' = steps + 1
    /\ \E ids \in AlignIds, direction \in Directions :
          CallWith("distributeElements", ids, direction, distributeThrows(Store, ids),
                   distributeElements(Store, ids, direction))
    /\ UNCHANGED alignIdle

NextAlign ==
    \/ AlignElements
    \/ DistributeElements

SpecAlign == InitAlign /\ [][NextAlign]_vars

-----------------------------------------------------------------------------
(* SpecDuplicate: duplicateElements on loaded documents of three elements *)

DuplicateLoaded ==
    /\ steps < MaxAlignSteps
    /\ steps' = steps + 1
    /\ \E ids \in AlignIds :
          /\ CallWith("duplicateElements", ids, "", FALSE,
                      duplicateElements(Store, ids, nextId))
          /\ nextId' = nextId + Len(selectedOf(elements, ids))
    /\ UNCHANGED <<text, escaped, result, compiled>>

NextDuplicate == DuplicateLoaded

SpecDuplicate == InitAlign /\ [][NextDuplicate]_vars

-----------------------------------------------------------------------------
(* SpecLoad: editing, undo and redo with loadElements and reset in between *)

\* ids of elements that come from a saved document
LoadedIds == {8, 9}

LoadDocuments ==
    {<<>>,
     <<[newElement("rect") EXCEPT !.id = 8, !.z = 0],
       [newElement("text") EXCEPT !.id = 9, !.z = 2, !.x = 20]>>}

\* the call is recorded with its argument, the store it found and the name of
\* the call before it
CallAfter(name, ids, arg, s) ==
    /\ Install(s)
    /\ ops' = <<[name |-> name, ids |-> ids, arg |-> arg, before |-> Store,
                 previous |-> IF ops = <<>> THEN "" ELSE ops[1].name]>>

LoadAddElement ==
    /\ CanSave
    /\ nextId <= MaxIds
    /\ CallAfter("addElement", {nextId}, <<>>,
                 addElement(Store, newElement("text"), nextId))
    /\ nextId' = nextId + 1
    /\ UNCHANGED idleVars

LoadRemoveElement ==
    /\ CanSave
    /\ \E id \in ElementIds :
          CallAfter("removeElement", {id}, <<>>, removeElement(Store, id))
    /\ UNCHANGED <<nextId, idleVars>>

LoadUndo ==
    /\ CallAfter("undo", {}, <<>>, undo(Store))
    /\ UNCHANGED <<nextId, idleVars>>

LoadRedo ==
    /\ CallAfter("redo", {}, <<>>, redo(Store))
    /\ UNCHANGED <<nextId, idleVars>>

LoadElements ==
    /\ \E doc \in LoadDocuments :
          CallAfter("loadElements", {}, doc, loadElements(Store, doc))
    /\ UNCHANGED <<nextId, idleVars>>

Reset ==
    /\ CallAfter("reset", {}, <<>>, reset(Store))
    /\ UNCHANGED <<nextId, idleVars>>

NextLoad ==
    \/ LoadAddElement
    \/ LoadRemoveElement
    \/ LoadUndo
    \/ LoadRedo
    \/ LoadElements
    \/ Reset

SpecLoad == Init /\ [][NextLoad]_vars

-----------------------------------------------------------------------------
(* SpecKind: elements are dropped on the canvas and the template kind is     *)
(* changed by the toolbar's select                                           *)

\* templateKindOptions
Kinds == {"pdf", "zpl", "escpos", "text"}

\* the element types of PdfElement, ZplElement, EscposElement and TextElement
ValidTypes(kind) ==
    CASE kind = "pdf" -> {"text", "rect", "line", "image", "barcode"}
      [] kind = "zpl" -> {"text", "box", "barcode", "qrcode"}
      [] kind = "escpos" -> {"text", "hline"}
      [] kind = "text" -> {"text", "hline"}

\* the palette items dropped in a run of SpecKind
KindPalette == {"text", "rect"}

KindAddElement ==
    /\ CanSave
    /\ nextId <= MaxIds
    /\ \E type \in KindPalette :
          Call("addElement", {nextId}, addElement(Store, newElement(type), nextId), 1)
    /\ nextId' = nextId + 1
    /\ UNCHANGED idleVars

KindUpdateConfig ==
    /\ \E kind \in Kinds :
          Call("updateConfig", {}, updateConfig(Store, [kind |-> kind]), 1)
    /\ UNCHANGED <<nextId, idleVars>>

NextKind ==
    \/ KindAddElement
    \/ KindUpdateConfig

SpecKind == Init /\ [][NextKind]_vars

-----------------------------------------------------------------------------
(* SpecMirror: runs of undo calls followed by as many redo calls, on stores  *)
(* that hold a past and a future.  Such a store is reached by loadElements,  *)
(* updateElement and saveToHistory calls followed by undo calls.             *)

\* the element lists the snapshots are taken from
MirrorLists == {<<>>, <<HistElement(1)>>, <<HistElement(2)>>}

\* the sequences over S of length at most n
SeqsUpTo(S, n) == UNION {[1..k -> S] : k \in 0..n}

InitMirror ==
    /\ \E els \in MirrorLists, past \in SeqsUpTo(MirrorLists, MaxPast),
          future \in SeqsUpTo(MirrorLists, MaxPast), sel \in {<<>>, <<1>>} :
          InitStore([initialState EXCEPT !.elements = els,
                                         !.history = [past |-> past, future |-> future],
                                         !.selectedIds = sel,
                                         !.isDirty = TRUE])
    /\ nextId = 2
    /\ InitIdle

\* the newest call and the store the run of undo calls started from; steps
\* counts the undo calls of the run that no redo has answered yet
MirrorCall(name, s, start) ==
    /\ Install(s)
    /\ ops' = <<[name |-> name, ids |-> {}, before |-> Store], start>>

\* undo while history.past is not empty; the first undo of a run notes the store
MirrorUndo ==
    /\ history.past # <<>>
    /\ IF ops = <<>> THEN TRUE ELSE (ops[1].name = "undo" \/ steps = 0)
    /\ MirrorCall("undo", undo(Store),
                  IF ops = <<>> \/ steps = 0
                  THEN [name |-> "start", ids |-> {}, before |-> Store]
                  ELSE ops[2])
    /\ steps' = steps + 1
    /\ UNCHANGED <<nextId, text, escaped, result, compiled>>

MirrorRedo ==
    /\ steps > 0
    /\ MirrorCall("redo", redo(Store), ops[2])
    /\ steps' = steps - 1
    /\ UNCHANGED <<nextId, text, escaped, result, compiled>>

NextMirror ==
    \/ MirrorUndo
    \/ MirrorRedo

SpecMirror == InitMirror /\ [][NextMirror]_vars

-----------------------------------------------------------------------------
(* SpecUpdate: updateElement and updateElements on loaded documents, with    *)
(* and without a selection (selectAll) and a history entry (saveToHistory)   *)

InitUpdate ==
    /\ \E doc \in AlignDocuments, selected \in BOOLEAN, saved \in BOOLEAN :
          LET loaded == loadElements(initialState, doc)
              s1 == IF selected THEN selectAll(loaded) ELSE loaded
          IN  InitStore(IF saved THEN saveToHistory(s1) ELSE s1)
    /\ nextId = 4
    /\ InitIdle

\* the changes a properties panel or a drag hands over
Patches == {[x |-> 7], [hidden |-> TRUE], [x |-> 7, width |-> 3]}

\* the arrays updateElements is given
Batches ==
    {<<>>,
     <<[id |-> 1, changes |-> [x |-> 7]]>>,
     <<[id |-> 2, changes |-> [y |-> 9]], [id |-> 3, changes |-> [x |-> 7, y |-> 9]]>>,
     <<[id |-> 0, changes |-> [x |-> 7]]>>,
     <<[id |-> 1, changes |-> [x |-> 7]], [id |-> 1, changes |-> [y |-> 9]]>>}

UpdateElement ==
    /\ steps < MaxAlignSteps
    /\ steps' = steps + 1
    /\ \E id \in ElementIds \cup {0}, changes \in Patches :
          CallWith("updateElement", {id}, changes, FALSE,
                   updateElement(Store, id, changes))
    /\ UNCHANGED alignIdle

UpdateElements ==
    /\ steps < MaxAlignSteps
    /\ steps' = steps + 1
    /\ \E updates \in Batches :
          CallWith("updateElements", {updates[k].id : k \in 1..Len(updates)}, updates,
                   FALSE, updateElements(Store, updates))
    /\ UNCHANGED alignIdle

NextUpdate ==
    \/ UpdateElement
    \/ UpdateElements

SpecUpdate == InitUpdate /\ [][NextUpdate]_vars

-----------------------------------------------------------------------------
(* SpecBatch: the six operations that save history, undo and redo, on loaded *)
(* documents of three elements whose history may already hold entries.       *)
(* Positions stay in units of 1 / AlignUnit mm; a halving after the first    *)
(* rounds down to the unit, and the history is not computed from positions.  *)

MaxBatchSteps == 2

BatchDocuments ==
    {doc \in AlignDocuments : doc[1].x = 10 * AlignUnit /\ doc[1].width = doc[3].width}

\* a loaded document as it is, after alignElements on two ids of which one
\* names an element, and after removeElement and undo
InitBatch ==
    /\ \E doc \in BatchDocuments, aligned \in BOOLEAN, undone \in BOOLEAN :
          LET loaded == loadElements(initialState, doc)
              s1 == IF aligned THEN alignElements(loaded, {1, 0}, "left") ELSE loaded
          IN  InitStore(IF undone THEN undo(removeElement(s1, 3)) ELSE s1)
    /\ nextId = 4
    /\ InitIdle

\* the id arrays of a batch call
BatchIds == {{1, 2}, {1, 2, 3}, {2, 3, 0}}

\* the call is recorded with the store it found, in front of the call before it
BatchCall(name, ids, s) ==
    /\ Install(s)
    /\ ops' = <<[name |-> name, ids |-> ids, before |-> Store]>>
                 \o (IF ops = <<>> THEN <<>> ELSE <<ops[1]>>)

BatchStep ==
    /\ steps < MaxBatchSteps
    /\ steps' = steps + 1
    /\ UNCHANGED <<text, escaped, result, compiled>>

BatchAddElement ==
    /\ BatchStep
    /\ BatchCall("addElement", {nextId}, addElement(Store, newElement("text"), nextId))
    /\ nextId' = nextId + 1

BatchRemoveElement ==
    /\ BatchStep
    /\ \E id \in {1, 3} : BatchCall("removeElement", {id}, removeElement(Store, id))
    /\ UNCHANGED nextId

BatchRemoveElements ==
    /\ BatchStep
    /\ \E ids \in BatchIds : BatchCall("removeElements", ids, removeElements(Store, ids))
    /\ UNCHANGED nextId

BatchDuplicateElements ==
    /\ BatchStep
    /\ \E ids \in BatchIds :
          /\ BatchCall("duplicateElements", ids, duplicateElements(Store, ids, nextId))
          /\ nextId' = nextId + Len(selectedOf(elements, ids))

BatchAlignElements ==
    /\ BatchStep
    /\ \E ids \in BatchIds, alignment \in {"left", "center"} :
          BatchCall("alignElements", ids, alignElements(Store, ids, alignment))
    /\ UNCHANGED nextId

BatchDistributeElements ==
    /\ BatchStep
    /\ \E ids \in BatchIds, direction \in Directions :
          BatchCall("distributeElements", ids, distributeElements(Store, ids, direction))
    /\ UNCHANGED nextId

BatchUndo ==
    /\ BatchStep
    /\ BatchCall("undo", {}, undo(Store))
    /\ UNCHANGED nextId

BatchRedo ==
    /\ BatchStep
    /\ BatchCall("redo", {}, redo(Store))
    /\ UNCHANGED nextId

NextBatch ==
    \/ BatchAddElement
    \/ BatchRemoveElement
    \/ BatchRemoveElements
    \/ BatchDuplicateElements
    \/ BatchAlignElements
    \/ BatchDistributeElements
    \/ BatchUndo
    \/ BatchRedo

SpecBatch == InitBatch /\ [][NextBatch]_vars

-----------------------------------------------------------------------------
(* SpecLayout: documents of one text or rect element without style are moved, *)
(* the paper and the editor's zoom are changed, and the document is compiled  *)

\* "Order {{id}}"
OrderText == <<"O", "r", "d", "e", "r", " ", "{", "{", "i", "d", "}", "}">>

\* x, y, width, height in mm
LayoutRects == {<<0, 0, 50, 10>>, <<10, 5, 50, 10>>, <<10, 5, 20, 4>>}

layoutElementOf(type, rect) ==
    [newElement(type) EXCEPT
        !.id = 1, !.x = rect[1], !.y = rect[2], !.width = rect[3], !.height = rect[4],
        !.content = IF type = "text" THEN OrderText ELSE <<>>]

LayoutDocuments ==
    {<<layoutElementOf(type, rect)>> : type \in {"text", "rect"}, rect \in LayoutRects}

InitLayout ==
    /\ \E doc \in LayoutDocuments : InitStore(loadElements(initialState, doc))
    /\ nextId = 2
    /\ InitIdle

\* a drag moves the element
LayoutMove ==
    /\ \E rect \in LayoutRects :
          Call("updateElement", {1},
               updateElement(Store, 1, [x |-> rect[1], y |-> rect[2]]), 0)
    /\ UNCHANGED <<nextId, compileIdle>>

\* the zoom control and the paper size fields
LayoutUpdateConfig ==
    /\ \E changes \in {[scale |-> 1], [scale |-> 2], [width |-> 80, height |-> 120],
                       [width |-> 210, height |-> 297]} :
          Call("updateConfig", {}, updateConfig(Store, changes), 0)
    /\ UNCHANGED <<nextId, compileIdle>>

NextLayout ==
    \/ Compile
    \/ LayoutMove
    \/ LayoutUpdateConfig

SpecLayout == InitLayout /\ [][NextLayout]_vars

-----------------------------------------------------------------------------
(* SpecPreview: the template kind is chosen in the toolbar and the document  *)
(* is previewed or copied                                                    *)

NextPreview ==
    \/ KindUpdateConfig
    \/ Compile

SpecPreview == InitPurity /\ [][NextPreview]_vars

-----------------------------------------------------------------------------
(* SpecObserved: addElement, duplicateElements and alignElements one set()   *)
(* call at a time.  zustand's set() installs the new state and calls every   *)
(* subscriber before it returns, so the state after each set() is observed.  *)
(* Nothing else runs between the set() calls of one operation here.          *)

\* no operation is between two of its set() calls
Returned == IF ops = <<>> THEN TRUE ELSE ~ops[1].pending

\* the operation starts: its first set() installs s; `whole` is the store the
\* operation leaves when it returns
Begin(name, ids, s, whole) ==
    /\ Returned
    /\ steps < MaxBatchSteps
    /\ Install(s)
    /\ ops' = <<[name |-> name, ids |-> ids, before |-> Store, whole |-> whole,
                 pending |-> TRUE]>>
    /\ UNCHANGED <<steps, text, escaped, result, compiled>>

\* the operation's last set() installs s and the operation returns
Finish(name, s) ==
    /\ ~Returned
    /\ ops[1].name = name
    /\ Install(s)
    /\ ops' = <<[ops[1] EXCEPT !.pending = FALSE]>>
    /\ steps' = steps + 1
    /\ UNCHANGED <<nextId, text, escaped, result, compiled>>

\* addElement: set({elements, selectedIds, isDirty})
AddElementSet ==
    /\ LET created == [newElement("text") EXCEPT !.id = nextId, !.z = 2 * Len(elements)]
       IN  Begin("addElement", {nextId},
                 [Store EXCEPT !.elements = Append(@, created),
                               !.selectedIds = <<nextId>>,
                               !.isDirty = TRUE],
                 addElement(Store, newElement("text"), nextId))
    /\ nextId' = nextId + 1

\* addElement: get().actions.saveToHistory()
AddElementSave == Finish("addElement", saveToHistory(Store))

\* duplicateElements: get().actions.saveToHistory()
DuplicateSave ==
    \E ids \in BatchIds :
       /\ Begin("duplicateElements", ids, saveToHistory(Store),
                duplicateElements(Store, ids, nextId))
       /\ nextId' = nextId + Len(selectedOf(elements, ids))

\* duplicateElements: set({elements, selectedIds, isDirty})
DuplicateSet ==
    Finish("duplicateElements",
           [Store EXCEPT !.elements = @ \o duplicates(ops[1].before.elements, ops[1].ids,
                                                      nextId - Len(selectedOf(elements, ops[1].ids))),
                         !.selectedIds = ops[1].whole.selectedIds,
                         !.isDirty = TRUE])

\* alignElements: get().actions.saveToHistory()
AlignSave ==
    /\ \E ids \in BatchIds, alignment \in {"left", "center"} :
          Begin("alignElements", ids, saveToHistory(Store),
                alignElements(Store, ids, alignment))
    /\ UNCHANGED nextId

\* alignElements: get().actions.updateElements(updates)
AlignUpdate ==
    Finish("alignElements",
           [Store EXCEPT !.elements = ops[1].whole.elements, !.isDirty = TRUE])

NextObserved ==
    \/ AddElementSet
    \/ AddElementSave
    \/ DuplicateSave
    \/ DuplicateSet
    \/ AlignSave
    \/ AlignUpdate

SpecObserved == InitBatch /\ [][NextObserved]_vars

-----------------------------------------------------------------------------
(* SpecReadOnly: the store is edited and previewed; the preview hands the    *)
(* store's own element array and config object to compileToPdfHtml           *)

Preview ==
    /\ result' = compileToPdfHtml(elements, config)
    /\ compiled' = <<[elements |-> elements, config |-> config,
                      selectedIds |-> selectedIds, history |-> history,
                      isDirty |-> isDirty,
                      result |-> compileToPdfHtml(elements, config)]>>
    /\ elements' = elementsAfterCompile(elements)
    /\ ops' = <<[name |-> "compileToPdfHtml", ids |-> {}, before |-> Store]>>
    /\ UNCHANGED <<selectedIds, history, isDirty, config, nextId, steps, text, escaped>>

NextReadOnly ==
    \/ Preview
    \/ UpdateConfig
    \/ SelectAll
    \/ SetDirty
    \/ PuritySaveToHistory

SpecReadOnly == InitPurity /\ [][NextReadOnly]_vars

-----------------------------------------------------------------------------
(* SpecSelection: the operations on elements, history and document in any    *)
(* order with the selection operations, which are given ids of elements that *)
(* are in the list when they are called                                      *)

InitSelection ==
    /\ \E selected \in BOOLEAN, undone \in BOOLEAN :
          LET doc == CHOOSE d \in BatchDocuments : d[1].y = 0
              loaded == loadElements(initialState, doc)
              s1 == IF undone THEN undo(removeElement(loaded, 3)) ELSE loaded
          IN  InitStore(IF selected THEN selectAll(s1) ELSE s1)
    /\ nextId = 4
    /\ InitIdle

SelUpdateElement ==
    /\ BatchStep
    /\ BatchCall("updateElement", {2}, updateElement(Store, 2, [x |-> 7, locked |-> TRUE]))
    /\ UNCHANGED nextId

SelBringToFront ==
    /\ BatchStep
    /\ BatchCall("bringToFront", {2}, bringToFront(Store, 2))
    /\ UNCHANGED nextId

SelSendToBack ==
    /\ BatchStep
    /\ BatchCall("sendToBack", {2}, sendToBack(Store, 2))
    /\ UNCHANGED nextId

SelBringForward ==
    /\ BatchStep
    /\ BatchCall("bringForward", {2}, bringForward(Store, 2))
    /\ UNCHANGED nextId

SelSendBackward ==
    /\ BatchStep
    /\ BatchCall("sendBackward", {2}, sendBackward(Store, 2))
    /\ UNCHANGED nextId

SelAlignElements ==
    /\ BatchStep
    /\ BatchCall("alignElements", {1, 2, 3}, alignElements(Store, {1, 2, 3}, "left"))
    /\ UNCHANGED nextId

SelDistributeElements ==
    /\ BatchStep
    /\ ~distributeThrows(Store, {1, 2, 3})
    /\ BatchCall("distributeElements", {1, 2, 3},
                 distributeElements(Store, {1, 2, 3}, "horizontal"))
    /\ UNCHANGED nextId

SelLoadElements ==
    /\ BatchStep
    /\ \E doc \in LoadDocuments \ {<<>>} :
          BatchCall("loadElements", {}, loadElements(Store, doc))
    /\ UNCHANGED nextId

SelReset ==
    /\ BatchStep
    /\ BatchCall("reset", {}, reset(Store))
    /\ UNCHANGED nextId

\* a click selects one element, a marquee all it covers
SetSelection ==
    /\ BatchStep
    /\ \E ids \in {<<elements[i].id>> : i \in 1..Len(elements)}
                  \cup {[i \in 1..Len(elements) |-> elements[i].id]} :
          BatchCall("setSelection", Range(ids), setSelection(Store, ids))
    /\ UNCHANGED nextId

AddToSelection ==
    /\ BatchStep
    /\ \E id \in ElementIds : BatchCall("addToSelection", {id}, addToSelection(Store, id))
    /\ UNCHANGED nextId

RemoveFromSelection ==
    /\ BatchStep
    /\ \E id \in ElementIds :
          BatchCall("removeFromSelection", {id}, removeFromSelection(Store, id))
    /\ UNCHANGED nextId

SelSelectAll ==
    /\ BatchStep
    /\ BatchCall("selectAll", {}, selectAll(Store))
    /\ UNCHANGED nextId

ClearSelection ==
    /\ BatchStep
    /\ BatchCall("clearSelection", {}, clearSelection(Store))
    /\ UNCHANGED nextId

NextSelection ==
    \/ BatchAddElement
    \/ BatchRemoveElement
    \/ BatchRemoveElements
    \/ BatchDuplicateElements
    \/ BatchUndo
    \/ BatchRedo
    \/ SelUpdateElement
    \/ SelBringToFront
    \/ SelSendToBack
    \/ SelBringForward
    \/ SelSendBackward
    \/ SelAlignElements
    \/ SelDistributeElements
    \/ SelLoadElements
    \/ SelReset
    \/ SetSelection
    \/ AddToSelection
    \/ RemoveFromSelection
    \/ SelSelectAll
    \/ ClearSelection

SpecSelection == InitSelection /\ [][NextSelection]_vars

-----------------------------------------------------------------------------
(* Properties of the store *)

CountChangingOps == {"addElement", "removeElement", "removeElements", "duplicateElements"}

SavingOps == CountChangingOps \cup {"saveToHistory"}

Called(name) == ops # <<>> /\ ops[1].name = name

\* the store the newest call found
Before == ops[1].before

\* C1: undo called immediately after addElement, removeElement, removeElements
\* or duplicateElements leaves the element list the operation found, element
\* for element.
C1_UndoIdentity ==
    (Len(ops) >= 2 /\ ops[1].name = "undo" /\ ops[2].name \in CountChangingOps)
        => elements = ops[2].before.elements

\* C7: an element-count-changing operation, then undo, then redo: the element
\* list is again the one the operation produced (the list undo found).
C7_RedoIdentity ==
    (Len(ops) = 3 /\ ops[1].name = "redo" /\ ops[2].name = "undo"
                  /\ ops[3].name \in CountChangingOps)
        => elements = ops[2].before.elements

\* the three calls happened, the undo changed the list, and the redo changed it back
C7_Witness ==
    /\ Len(ops) = 3
    /\ ops[1].name = "redo" /\ ops[2].name = "undo"
    /\ ops[3].name \in {"removeElement", "duplicateElements"}
    /\ Before.elements # ops[2].before.elements
    /\ elements # Before.elements

\* C8: the element addElement creates has a z strictly greater than the z of
\* every element present before the call.
C8_AddOnTop ==
    Called("addElement")
        => \A z \in Zs(Before.elements) : elements[Len(elements)].z > z

\* C9: the snapshot addElement appends to history.past is the element list as
\* it was before the call, and history.future is empty afterwards.
C9_AddSnapshot ==
    Called("addElement")
        => /\ history.past # <<>>
           /\ history.past[Len(history.past)] = Before.elements
           /\ history.future = <<>>

\* C2: after any sequence of bringToFront, sendToBack, bringForward and
\* sendBackward on a list of pairwise distinct z, the z values are pairwise
\* distinct.
C2_ZDistinct ==
    \A i, j \in 1..Len(elements) : i # j => elements[i].z # elements[j].z

ZOf(els, id) == find(els, id)[1].z

\* every pair of elements other than `id` is ordered under z in `after` as in `before`
OthersKeepOrder(before, after, id) ==
    \A a, b \in {before[i].id : i \in 1..Len(before)} \ {id} :
        (ZOf(before, a) < ZOf(before, b)) <=> (ZOf(after, a) < ZOf(after, b))

\* C10: bringForward on an element with an element above it puts it strictly
\* above its former immediate upper neighbour and strictly below the next
\* element further up, if there is one, and keeps every other pair in order;
\* sendBackward is the mirror image.
C10_OneStep ==
    /\ Called("bringForward") =>
          \A id \in ops[1].ids \cap {Before.elements[i].id : i \in 1..Len(Before.elements)} :
             LET above == {z \in Zs(Before.elements) : z > ZOf(Before.elements, id)}
                 further == {z \in above : z > SetMin(above)}
             IN  above # {} =>
                    /\ ZOf(elements, id) > SetMin(above)
                    /\ further # {} => ZOf(elements, id) < SetMin(further)
                    /\ OthersKeepOrder(Before.elements, elements, id)
    /\ Called("sendBackward") =>
          \A id \in ops[1].ids \cap {Before.elements[i].id : i \in 1..Len(Before.elements)} :
             LET below == {z \in Zs(Before.elements) : z < ZOf(Before.elements, id)}
                 further == {z \in below : z < SetMax(below)}
             IN  below # {} =>
                    /\ ZOf(elements, id) < SetMax(below)
                    /\ further # {} => ZOf(elements, id) > SetMax(further)
                    /\ OthersKeepOrder(Before.elements, elements, id)

\* C3: history.past never holds more than 50 snapshots; a saving operation that
\* finds 50 drops the oldest, keeps the other 49 in order and appends the
\* newest last.
C3_HistoryCapped ==
    /\ Len(history.past) <= HistoryCap
    /\ (ops # <<>> /\ ops[1].name \in SavingOps
            /\ Len(Before.history.past) = HistoryCap)
        => /\ Len(history.past) = HistoryCap
           /\ SubSeq(history.past, 1, HistoryCap - 1) = Tail(Before.history.past)
           /\ history.past[HistoryCap] \in {Before.elements, elements}

\* a saving operation ran on a full history whose oldest snapshot differed from
\* the second oldest
C3_Witness ==
    /\ ops # <<>>
    /\ ops[1].name \in SavingOps
    /\ Len(Before.history.past) = HistoryCap
    /\ Before.history.past[1] # Before.history.past[2]

-----------------------------------------------------------------------------
(* Properties of escapeHtml *)

\* t[i..j] is an expression span: "{{" and an optional third "{", the
\* expression up to the next "}}", "}}" and an optional third "}"
IsExpression(t, i, j) ==
    \E open \in {2, 3}, close \in {2, 3} :
        /\ i + open + close <= j
        /\ \A k \in i..(i + open - 1) : t[k] = "{"
        /\ \A k \in (j - close + 1)..j : t[k] = "}"
        /\ \A k \in (i + open)..(j - close) : ~(t[k] = "}" /\ t[k + 1] = "}")

ExpressionStarts(t, from) ==
    {i \in from..Len(t) : \E j \in i..Len(t) : IsExpression(t, i, j)}

\* the entity a literal character is written as
Entity(ch) ==
    CASE ch = "&" -> <<"&", "a", "m", "p", ";">>
      [] ch = "<" -> <<"&", "l", "t", ";">>
      [] ch = ">" -> <<"&", "g", "t", ";">>
      [] ch = "\"" -> <<"&", "q", "u", "o", "t", ";">>
      [] OTHER -> <<ch>>

\* t from index `from` on: the expression spans, taken left to right and as
\* long as they go, copied; every character outside them written as its entity
RECURSIVE Preserved(_, _)
Preserved(t, from) ==
    IF from > Len(t) THEN <<>>
    ELSE IF from \in ExpressionStarts(t, from)
    THEN LET j == SetMax({k \in from..Len(t) : IsExpression(t, from, k)})
         IN  SubSeq(t, from, j) \o Preserved(t, j + 1)
    ELSE Entity(t[from]) \o Preserved(t, from + 1)

\* C5: escapeHtml returns, in the original order, every double-brace or
\* triple-brace expression span unchanged and every literal span with & < > "
\* written as entities.
C5_ExpressionsPreserved ==
    escaped.done => escaped.value = Preserved(text, 1)

-----------------------------------------------------------------------------
(* Properties of compileToPdfHtml *)

Hidden(els) == {els[i] : i \in {k \in 1..Len(els) : els[k].hidden}}

\* the piece of the output that opens the element's tag and carries its id;
\* an element of an unknown type leaves a comment without an id
OpeningPiece(element) ==
    compileElement([element EXCEPT !.dataBinding = <<>>], <<>>).html[1]

HasOpeningPiece(element) ==
    element.type \in {"text", "rect", "line", "image", "barcode", "qrcode", "hline"}

\* C4: no hidden element contributes a fragment or a warning to the compiled
\* output, which is the output of compiling the list without its hidden
\* elements.
C4_HiddenExcluded ==
    \A k \in 1..Len(compiled) :
        LET r == compiled[k]
        IN  /\ r.result = compileToPdfHtml(SelectSeq(r.elements, LAMBDA el : ~el.hidden),
                                            r.config)
            /\ \A el \in Hidden(r.elements) :
                  /\ \A i \in 1..Len(r.result.warnings) :
                        r.result.warnings[i].elementId # el.id
                  /\ HasOpeningPiece(el)
                        => OpeningPiece(el) \notin Range(r.result.handlebars)

\* a document whose upper element is hidden and would have pushed a warning
\* has been compiled, the lower element being in the output
C4_Witness ==
    /\ compiled # <<>>
    /\ LET r == compiled[1]
       IN  /\ Len(r.elements) = 2
           /\ r.elements[1].hidden
           /\ r.elements[1].type = "barcode"
           /\ ~r.elements[2].hidden
           /\ r.elements[2].type = "image"
           /\ OpeningPiece(r.elements[2]) \in Range(r.result.handlebars)
           /\ Len(r.result.warnings) = 1

-----------------------------------------------------------------------------
(* Properties of alignElements and distributeElements *)

\* the elements of the list the newest call found that its ids name
Matched == {i \in 1..Len(Before.elements) : Before.elements[i].id \in ops[1].ids}

\* C11: alignElements on two or more selected elements puts the named edge or
\* the centre of every selected element on the prior extreme or midpoint of
\* the selection, and changes no width, no height and no other element.
C11_Aligned ==
    (Called("alignElements") /\ Cardinality(Matched) >= 2) =>
        LET old == Before.elements
            minX == SetMin({old[i].x : i \in Matched})
            maxRight == SetMax({old[i].x + old[i].width : i \in Matched})
            minY == SetMin({old[i].y : i \in Matched})
            maxBottom == SetMax({old[i].y + old[i].height : i \in Matched})
            a == ops[1].arg
        IN  /\ Len(elements) = Len(old)
            /\ \A i \in 1..Len(old) :
                  /\ elements[i].id = old[i].id
                  /\ elements[i].width = old[i].width
                  /\ elements[i].height = old[i].height
                  /\ i \notin Matched => elements[i] = old[i]
            /\ \A i \in Matched :
                  LET el == elements[i]
                  IN  CASE a = "left" -> el.x = minX
                        [] a = "right" -> el.x + el.width = maxRight
                        [] a = "center" -> 2 * el.x + el.width = minX + maxRight
                        [] a = "top" -> el.y = minY
                        [] a = "bottom" -> el.y + el.height = maxBottom
                        [] a = "middle" -> 2 * el.y + el.height = minY + maxBottom

\* two elements of different widths were centred on each other, one of them
\* moved, the third element not being selected
C11_Witness ==
    /\ Called("alignElements")
    /\ ops[1].arg = "center"
    /\ ops[1].ids = {1, 2}
    /\ Before.elements[1].width # Before.elements[2].width
    /\ elements[1].x # Before.elements[1].x
    /\ 2 * elements[1].x + elements[1].width = 2 * elements[2].x + elements[2].width
    /\ elements[3] = Before.elements[3]

\* C12: distributeElements on three or more selected elements, taken in
\* ascending order of their prior position, keeps the first and the last in
\* place and makes every gap between neighbours (span - occupied) / (count - 1),
\* a negative gap included.
C12_Distributed ==
    (Called("distributeElements") /\ Cardinality(Matched) >= 3) =>
        LET old == Before.elements
            axis == IF ops[1].arg = "horizontal" THEN "x" ELSE "y"
            extent == IF ops[1].arg = "horizontal" THEN "width" ELSE "height"
            n == Cardinality(Matched)
            Orders == {o \in [1..n -> Matched] :
                          /\ \A j, k \in 1..n : j # k => o[j] # o[k]
                          /\ \A j \in 1..(n - 1) : old[o[j]][axis] <= old[o[j + 1]][axis]}
        IN  \E o \in Orders :
               LET span == old[o[n]][axis] + old[o[n]][extent] - old[o[1]][axis]
                   occupied == LET RECURSIVE total(_)
                                   total(k) == IF k = 0 THEN 0
                                               ELSE old[o[k]][extent] + total(k - 1)
                               IN  total(n)
               IN  /\ elements[o[1]][axis] = old[o[1]][axis]
                   /\ elements[o[n]][axis] = old[o[n]][axis]
                   /\ \A j \in 1..(n - 1) :
                         (n - 1) * (elements[o[j + 1]][axis] - elements[o[j]][axis]
                                    - old[o[j]][extent])
                         = span - occupied

\* x = 0, 30, 100 mm with widths of 10 mm were distributed horizontally and the
\* middle element went to 50 mm
C12_Witness ==
    /\ Called("distributeElements")
    /\ ops[1].arg = "horizontal"
    /\ ops[1].ids = {1, 2, 3}
    /\ [i \in 1..3 |-> Before.elements[i].x] = <<0, 30 * AlignUnit, 100 * AlignUnit>>
    /\ \A i \in 1..3 : Before.elements[i].width = 10 * AlignUnit
    /\ [i \in 1..3 |-> elements[i].x] = <<0, 50 * AlignUnit, 100 * AlignUnit>>

\* C18: alignElements whose ids name fewer than two elements and
\* distributeElements whose ids name fewer than three raise no error, push no
\* history entry and leave elements, history and dirty flag as they were.
C18_TooFewIgnored ==
    ((Called("alignElements") /\ Cardinality(Matched) < 2)
        \/ (Called("distributeElements") /\ Cardinality(Matched) < 3)) =>
        /\ ~ops[1].threw
        /\ elements = Before.elements
        /\ history = Before.history
        /\ isDirty = Before.isDirty

-----------------------------------------------------------------------------
(* Properties of duplicateElements *)

\* C13: duplicateElements on n matching elements appends n elements with n
\* new, pairwise distinct ids, each equal to its source but for id, z and a
\* position 10 further right and down, leaves the originals as they were and
\* selects exactly the new ids.
C13_DuplicatesFresh ==
    Called("duplicateElements") =>
        LET old == Before.elements
            sources == SelectSeq(old, LAMBDA el : el.id \in ops[1].ids)
            n == Len(sources)
            oldIds == {old[i].id : i \in 1..Len(old)}
            new(k) == elements[Len(old) + k]
        IN  /\ Len(elements) = Len(old) + n
            /\ SubSeq(elements, 1, Len(old)) = old
            /\ \A j, k \in 1..n : j # k => new(j).id # new(k).id
            /\ \A k \in 1..n :
                  /\ new(k).id \notin oldIds
                  /\ new(k).x = sources[k].x + 10
                  /\ new(k).y = sources[k].y + 10
                  /\ \A f \in DOMAIN sources[k] \ {"id", "z", "x", "y"} :
                        new(k)[f] = sources[k][f]
            /\ selectedIds = [k \in 1..n |-> new(k).id]

\* two of three elements were duplicated, the ids given naming a third
\* element that does not exist
C13_Witness ==
    /\ Called("duplicateElements")
    /\ ops[1].ids = {0, 1, 3}
    /\ Len(Before.elements) = 3
    /\ Len(elements) = 5
    /\ Len(selectedIds) = 2
    /\ elements[4].width # elements[5].width

-----------------------------------------------------------------------------
(* Properties of compileElement *)

\* the fragment of an element without its condition
Bare(element) == compileElement([element EXCEPT !.dataBinding = <<>>], <<>>).html

\* the fragment in a conditional block that opens with the condition
InBlock(element) ==
    <<"{{#if ">> \o element.dataBinding \o <<"}}", "\n">> \o Bare(element)
    \o <<"\n", "{{/if}}">>

OccursAt(out, pieces, p) ==
    /\ p >= 1
    /\ p + Len(pieces) - 1 <= Len(out)
    /\ SubSeq(out, p, p + Len(pieces) - 1) = pieces

VisibleOf(els) == {els[i] : i \in {k \in 1..Len(els) : ~els[k].hidden}}

\* C14: the fragment of every visible element that has a condition stands,
\* whatever its type, in a conditional block opening with the condition
\* verbatim and closing after the fragment; an element without a condition is
\* emitted outside any block.
C14_ConditionalWrap ==
    \A k \in 1..Len(compiled) :
        LET out == compiled[k].result.handlebars
        IN  \A el \in VisibleOf(compiled[k].elements) :
               IF el.dataBinding # <<>>
               THEN \E p \in 1..Len(out) : OccursAt(out, InBlock(el), p)
               ELSE \E p \in 3..Len(out) :
                       OccursAt(out, Bare(el), p) /\ out[p - 2] # "}}"

KnownTypes == {"text", "rect", "line", "image", "barcode", "qrcode", "hline"}

UnknownOf(els) == {el \in VisibleOf(els) : el.type \notin KnownTypes}

CommentOf(element) == "<!-- Unknown element type: " \o element.type \o " -->"

C16_AscendingZ ==
    \A k \in 1..Len(compiled) :
        LET out == compiled[k].result.handlebars
        IN  \A a, b \in VisibleOf(compiled[k].elements) :
               a.z < b.z =>
                  LET ofA == compileElement(a, <<>>).html
                      ofB == compileElement(b, <<>>).html
                  IN  \E p \in 1..Len(out) :
                         /\ OccursAt(out, ofA, p)
                         /\ \E q \in (p + Len(ofA))..Len(out) : OccursAt(out, ofB, q)

\* two visible elements were compiled, the one that comes first in the array
\* lying above the other
C16_Witness ==
    /\ compiled # <<>>
    /\ LET r == compiled[1]
       IN  /\ Len(r.elements) = 2
           /\ ~r.elements[1].hidden /\ ~r.elements[2].hidden
           /\ r.elements[1].z > r.elements[2].z
           /\ r.elements[1].type = "text" /\ r.elements[2].type = "image"
           /\ \E p \in 1..Len(r.result.handlebars) :
                 OccursAt(r.result.handlebars, Bare(r.elements[2]), p)

-----------------------------------------------------------------------------
(* Properties of undo, redo, loadElements and reset *)

StoreUnchanged ==
    /\ elements = Before.elements
    /\ selectedIds = Before.selectedIds
    /\ history = Before.history
    /\ isDirty = Before.isDirty

\* C17: undo on an empty history.past and redo on an empty history.future
\* change nothing: elements, selection, past, future and dirty flag stay.
C17_EmptyNoOp ==
    /\ (Called("undo") /\ Before.history.past = <<>>) => StoreUnchanged
    /\ (Called("redo") /\ Before.history.future = <<>>) => StoreUnchanged

\* undo was called on an empty past with elements in the list and a future to
\* keep
C17_Witness ==
    /\ Called("undo")
    /\ Before.history.past = <<>>
    /\ Before.history.future # <<>>
    /\ Before.elements # <<>>
    /\ Before.isDirty

\* C19: after loadElements(E) the list is E; after loadElements and after
\* reset past and future are empty, nothing is selected and the dirty flag is
\* false, so that an undo or redo called next changes nothing.
C19_LoadClears ==
    /\ Called("loadElements") => elements = ops[1].arg
    /\ Called("reset") => elements = <<>> /\ config = defaultConfig
    /\ (Called("loadElements") \/ Called("reset")) =>
          /\ history = [past |-> <<>>, future |-> <<>>]
          /\ selectedIds = <<>>
          /\ isDirty = FALSE
    /\ ((Called("undo") \/ Called("redo")) /\ ops[1].previous \in {"loadElements", "reset"})
          => StoreUnchanged

\* a document was loaded into a store with elements, a selection, a past and
\* a future
C19_Witness ==
    /\ Called("loadElements")
    /\ ops[1].arg # <<>>
    /\ Before.elements # <<>>
    /\ Before.elements # ops[1].arg
    /\ Before.history.past # <<>>
    /\ Before.history.future # <<>>
    /\ Before.isDirty

-----------------------------------------------------------------------------
(* Properties of the canvas kind *)

\* C20: in every state every element's type is one of the types valid for
\* the canvas kind, also after updateConfig has changed the kind.
C20_TypesValidForKind ==
    \A i \in 1..Len(elements) : elements[i].type \in ValidTypes(config.kind)

-----------------------------------------------------------------------------
(* Properties of undo and redo runs *)

\* C21: undo on a non-empty past installs its last snapshot, removes it from
\* past, puts the list it found at the head of future and clears the
\* selection; redo mirrors it; k undo calls followed by k redo calls restore
\* elements, past and future.
C21_UndoRedoMirror ==
    /\ (Called("undo") /\ Before.history.past # <<>>) =>
          /\ elements = Before.history.past[Len(Before.history.past)]
          /\ history.past = SubSeq(Before.history.past, 1, Len(Before.history.past) - 1)
          /\ history.future = <<Before.elements>> \o Before.history.future
          /\ selectedIds = <<>>
    /\ (Called("redo") /\ Before.history.future # <<>>) =>
          /\ elements = Before.history.future[1]
          /\ history.future = Tail(Before.history.future)
          /\ history.past = Append(Before.history.past, Before.elements)
          /\ selectedIds = <<>>
    /\ (Called("redo") /\ steps = 0 /\ Len(ops) = 2 /\ ops[2].name = "start") =>
          /\ elements = ops[2].before.elements
          /\ history.past = ops[2].before.history.past
          /\ history.future = ops[2].before.history.future

\* two undo calls were answered by two redo calls on a store whose past held
\* two different snapshots and whose future was not empty
C21_Witness ==
    /\ Called("redo")
    /\ steps = 0
    /\ Len(ops) = 2
    /\ ops[2].name = "start"
    /\ Len(ops[2].before.history.past) >= 2
    /\ ops[2].before.history.past[1] # ops[2].before.history.past[2]
    /\ ops[2].before.history.future # <<>>
    /\ Len(Before.history.past) = Len(ops[2].before.history.past) - 1
    /\ ops[2].before.elements # ops[2].before.history.past[2]

-----------------------------------------------------------------------------
(* Properties of addElement, removeElement, removeElements and the z of      *)
(* duplicates                                                                *)

IdsOf(els) == {els[i].id : i \in 1..Len(els)}

\* C22: addElement appends exactly one element last, with a new id, which it
\* returns and makes the only selected id; the dirty flag is set and the
\* elements that were there stay as they were.
C22_AddAppends ==
    Called("addElement") =>
        LET old == Before.elements
        IN  /\ Len(elements) = Len(old) + 1
            /\ SubSeq(elements, 1, Len(old)) = old
            /\ ops[1].ids = {elements[Len(elements)].id}
            /\ elements[Len(elements)].id \notin IdsOf(old)
            /\ selectedIds = <<elements[Len(elements)].id>>
            /\ isDirty

\* an element was added to a list of two, another element being selected
C22_Witness ==
    /\ Called("addElement")
    /\ Len(Before.elements) = 2
    /\ Len(Before.selectedIds) = 1
    /\ Len(elements) = 3
    /\ selectedIds # Before.selectedIds

\* C24: removeElement and removeElements push the list they found onto
\* history.past and then remove exactly the named elements from the list and
\* their ids from the selection; the other elements stay as they were, in
\* their order.
C24_RemoveExactly ==
    (Called("removeElement") \/ Called("removeElements")) =>
        LET old == Before.elements
            at(el) == CHOOSE i \in 1..Len(old) : old[i] = el
        IN  /\ history.past = Append(Before.history.past, old)
            /\ IdsOf(elements) = IdsOf(old) \ ops[1].ids
            /\ Len(elements) = Cardinality(IdsOf(old) \ ops[1].ids)
            /\ \A i \in 1..Len(elements) : elements[i] \in Range(old)
            /\ \A i, j \in 1..Len(elements) : i < j => at(elements[i]) < at(elements[j])
            /\ Range(selectedIds) = Range(Before.selectedIds) \ ops[1].ids
            /\ Len(selectedIds) = Cardinality(Range(Before.selectedIds) \ ops[1].ids)

\* the first of two elements was removed while the second was selected
C24_Witness ==
    /\ Called("removeElement")
    /\ Len(Before.elements) = 2
    /\ ops[1].ids = {Before.elements[1].id}
    /\ Before.selectedIds = <<Before.elements[2].id>>
    /\ elements = <<Before.elements[2]>>
    /\ selectedIds = Before.selectedIds

\* C26: every element duplicateElements creates has a z above every z that
\* was there before the call, and the duplicates lie among themselves in the
\* z order of their sources.
C26_DuplicatesOnTop ==
    Called("duplicateElements") =>
        LET old == Before.elements
            sources == SelectSeq(old, LAMBDA el : el.id \in ops[1].ids)
            new(k) == elements[Len(old) + k]
        IN  /\ \A k \in 1..Len(sources) :
                  \A i \in 1..Len(old) : new(k).z > old[i].z
            /\ \A j, k \in 1..Len(sources) :
                  sources[j].z < sources[k].z => new(j).z < new(k).z

-----------------------------------------------------------------------------
(* Properties of the z operations; z in half units, so one is written 2 *)

\* the id the newest call was given
CalledId == CHOOSE id \in ops[1].ids : TRUE

OthersUnchanged ==
    /\ Len(elements) = Len(Before.elements)
    /\ \A i \in 1..Len(elements) :
          IF Before.elements[i].id = CalledId
          THEN \A f \in DOMAIN elements[i] \ {"z"} : elements[i][f] = Before.elements[i][f]
          ELSE elements[i] = Before.elements[i]

\* C27: bringToFront on an existing element sets its z to the previous
\* maximum plus one, above every other element; sendToBack sets it to the
\* previous minimum minus one, below every other element; no other z and no
\* history entry changes.
C27_FrontAndBack ==
    /\ (Called("bringToFront") /\ CalledId \in IdsOf(Before.elements)) =>
          /\ ZOf(elements, CalledId) = SetMax(Zs(Before.elements)) + 2
          /\ \A i \in 1..Len(elements) :
                elements[i].id # CalledId => elements[i].z < ZOf(elements, CalledId)
          /\ OthersUnchanged
          /\ history = Before.history
    /\ (Called("sendToBack") /\ CalledId \in IdsOf(Before.elements)) =>
          /\ ZOf(elements, CalledId) = SetMin(Zs(Before.elements)) - 2
          /\ \A i \in 1..Len(elements) :
                elements[i].id # CalledId => elements[i].z > ZOf(elements, CalledId)
          /\ OthersUnchanged
          /\ history = Before.history

\* the lowest of three elements was brought to the front
C27_Witness ==
    /\ Called("bringToFront")
    /\ CalledId \in IdsOf(Before.elements)
    /\ ZOf(Before.elements, CalledId) = SetMin(Zs(Before.elements))
    /\ Cardinality(Zs(Before.elements)) = 3
    /\ ZOf(elements, CalledId) = SetMax(Zs(elements))

\* C28: bringForward on the element of the highest z, sendBackward on the
\* element of the lowest z and either of them on an id that names no element
\* leave elements, selection, history and dirty flag as they were.
C28_NoNeighbourNoOp ==
    /\ (Called("bringForward")
          /\ (CalledId \notin IdsOf(Before.elements)
                \/ ZOf(Before.elements, CalledId) = SetMax(Zs(Before.elements))))
          => StoreUnchanged
    /\ (Called("sendBackward")
          /\ (CalledId \notin IdsOf(Before.elements)
                \/ ZOf(Before.elements, CalledId) = SetMin(Zs(Before.elements))))
          => StoreUnchanged

\* bringForward was called on the topmost of three elements of a store that
\* was not dirty
C28_Witness ==
    /\ Called("bringForward")
    /\ CalledId \in IdsOf(Before.elements)
    /\ Len(Before.elements) = 3
    /\ ZOf(Before.elements, CalledId) = SetMax(Zs(Before.elements))
    /\ ~Before.isDirty
    /\ ~isDirty

-----------------------------------------------------------------------------
(* Properties of updateElement and updateElements *)

\* the fields the newest call's argument patches in the element of this id
PatchedFields(id) ==
    IF ops[1].name = "updateElement"
    THEN IF id \in ops[1].ids THEN DOMAIN ops[1].arg ELSE {}
    ELSE UNION {DOMAIN ops[1].arg[k].changes :
                   k \in {j \in 1..Len(ops[1].arg) : ops[1].arg[j].id = id}}

\* C23: updateElement and updateElements change only the patched fields of
\* the elements whose id matches; the other elements, the order of the list,
\* the selection and the history stay as they were, and a patch for an id
\* that names nothing changes no element.
C23_UpdateOnlyPatched ==
    (Called("updateElement") \/ Called("updateElements")) =>
        LET old == Before.elements
        IN  /\ Len(elements) = Len(old)
            /\ \A i \in 1..Len(old) :
                  \A f \in DOMAIN old[i] \ PatchedFields(old[i].id) :
                     elements[i][f] = old[i][f]
            /\ Called("updateElement") =>
                  \A i \in 1..Len(old) :
                     old[i].id \in ops[1].ids =>
                        \A f \in DOMAIN ops[1].arg : elements[i][f] = ops[1].arg[f]
            /\ selectedIds = Before.selectedIds
            /\ history = Before.history

\* one of three selected elements of a store with a history entry was given
\* a new x and width
C23_Witness ==
    /\ Called("updateElement")
    /\ ops[1].ids = {2}
    /\ ops[1].arg = [x |-> 7, width |-> 3]
    /\ Before.elements[2].x # 7
    /\ elements[2].x = 7
    /\ Len(Before.selectedIds) = 3
    /\ Len(Before.history.past) = 1
    /\ elements[1] = Before.elements[1]

-----------------------------------------------------------------------------
(* Properties of the history entries of one call *)

\* how many elements of the list the call found its ids name
Selected(op) ==
    Cardinality({i \in 1..Len(op.before.elements) : op.before.elements[i].id \in op.ids})

\* C25: one call of addElement, removeElement, removeElements,
\* duplicateElements, alignElements with two or more selected or
\* distributeElements with three or more selected appends exactly one
\* snapshot to history.past, however many elements it touches; the entries
\* that were there stay in place.
C25_OneSnapshot ==
    (\/ Called("addElement") \/ Called("removeElement")
     \/ Called("removeElements") \/ Called("duplicateElements")
     \/ (Called("alignElements") /\ Selected(ops[1]) >= 2)
     \/ (Called("distributeElements") /\ Selected(ops[1]) >= 3)) =>
        /\ Len(history.past) = Len(Before.history.past) + 1
        /\ SubSeq(history.past, 1, Len(Before.history.past)) = Before.history.past

\* removeElements took three elements away and left one more history entry
C25_Witness ==
    /\ Called("removeElements")
    /\ Selected(ops[1]) = 3
    /\ elements = <<>>
    /\ Before.history.past # <<>>
    /\ Len(history.past) = Len(Before.history.past) + 1

\* the call went through saveToHistory
Saved(op) ==
    \/ op.name \in {"addElement", "removeElement", "removeElements", "duplicateElements"}
    \/ op.name = "alignElements" /\ Cardinality(op.ids) >= 2
    \/ op.name = "distributeElements" /\ Cardinality(op.ids) >= 3 /\ Selected(op) >= 1

\* C29: after an operation that saved history history.future is empty, and a
\* redo called next changes nothing: the lists undone before the edit do not
\* come back.
C29_EditClearsFuture ==
    /\ (ops # <<>> /\ Saved(ops[1])) => history.future = <<>>
    /\ (Len(ops) >= 2 /\ ops[1].name = "redo" /\ Saved(ops[2])) =>
          StoreUnchanged

\* an edit found an undone list in history.future, and the redo after it
\* found nothing to reinstate
C29_Witness ==
    /\ Len(ops) >= 2
    /\ ops[1].name = "redo"
    /\ ops[2].name = "alignElements"
    /\ Selected(ops[2]) = 3
    /\ ops[2].before.history.future # <<>>
    /\ Before.history.future = <<>>
    /\ StoreUnchanged

-----------------------------------------------------------------------------
(* Properties of the text embedded by compileElement *)

\* the element types whose fragment embeds text of the element
TextTypes == {"text", "image", "barcode", "qrcode", "hline"}

\* the text of the element that its fragment embeds
EmbeddedText(element) ==
    IF element.type = "hline"
    THEN [i \in 1..(3 * element.width) |-> element.content[1]]
    ELSE element.content

\* C30: the text an element supplies (text content, barcode data, QR data,
\* image source, the fill character of a horizontal rule) stands in the
\* output between the fixed opening and closing markup of its fragment as the
\* expression-preserving escape of it: no & < > " of it outside an
\* expression is left unescaped and no character is added to it.
C30_EmbeddedTextEscaped ==
    \A k \in 1..Len(compiled) :
        LET out == compiled[k].result.handlebars
        IN  \A el \in VisibleOf(compiled[k].elements) :
               (el.type \in TextTypes /\ el.content # <<>>) =>
                  LET bare == Bare(el)
                      escapedText == Preserved(EmbeddedText(el), 1)
                  IN  /\ SubSeq(bare, 2, Len(bare) - 1) = escapedText
                      /\ \E p \in 1..Len(out) : OccursAt(out, bare, p)

-----------------------------------------------------------------------------
(* Properties of the placeholders and their warnings *)

\* the warnings of a result that carry the element's id
WarningsOf(r, element) ==
    SelectSeq(r.result.warnings, LAMBDA w : w.elementId = element.id)

\* the data a barcode or qrcode placeholder shows
PlaceholderData(element) ==
    IF element.content # <<>> THEN element.content
    ELSE IF element.type = "barcode"
    THEN <<"1", "2", "3", "4", "5", "6", "7", "8", "9">>
    ELSE <<"h", "t", "t", "p", "s", ":", "/", "/", "e", "x", "a", "m",
           "p", "l", "e", ".", "c", "o", "m">>

ImgOpening(element) == "  <img data-id=\"" \o idText(element.id) \o "\" src=\""

\* C31: a visible image without source gives a placeholder block and one
\* EMPTY_IMAGE_SRC warning with its id, one with a source an image reference
\* and no warning; every visible barcode gives a placeholder holding its data
\* and one BARCODE_PLACEHOLDER warning, every visible qrcode a placeholder and
\* one QRCODE_PLACEHOLDER warning; the result holds the fragment of every
\* visible element.
C31_PlaceholderWarnings ==
    \A k \in 1..Len(compiled) :
        LET r == compiled[k]
            out == r.result.handlebars
        IN  /\ r.result.kind = "pdf"
            /\ \A el \in VisibleOf(r.elements) :
                  LET bare == Bare(el)
                      mine == WarningsOf(r, el)
                  IN  /\ \E p \in 1..Len(out) : OccursAt(out, bare, p)
                      /\ (el.type = "image" /\ el.content = <<>>) =>
                            /\ Len(bare) = 1
                            /\ bare[1] # ImgOpening(el)
                            /\ Len(mine) = 1
                            /\ mine[1].code = "EMPTY_IMAGE_SRC"
                      /\ (el.type = "image" /\ el.content # <<>>) =>
                            /\ bare[1] = ImgOpening(el)
                            /\ SubSeq(bare, 2, Len(bare) - 1) = Preserved(el.content, 1)
                            /\ mine = <<>>
                      /\ el.type = "barcode" =>
                            /\ SubSeq(bare, 2, Len(bare) - 1)
                                  = Preserved(PlaceholderData(el), 1)
                            /\ Len(mine) = 1
                            /\ mine[1].code = "BARCODE_PLACEHOLDER"
                      /\ el.type = "qrcode" =>
                            /\ SubSeq(bare, 2, Len(bare) - 1)
                                  = Preserved(PlaceholderData(el), 1)
                            /\ Len(mine) = 1
                            /\ mine[1].code = "QRCODE_PLACEHOLDER"

\* an image without source and a barcode, both visible, were compiled: two
\* warnings and both fragments
C31_Witness ==
    /\ compiled # <<>>
    /\ LET r == compiled[1]
       IN  /\ Len(r.elements) = 2
           /\ r.elements[1].type = "image" /\ r.elements[1].content = <<>>
           /\ r.elements[2].type = "barcode"
           /\ ~r.elements[1].hidden /\ ~r.elements[2].hidden
           /\ Len(r.result.warnings) = 2
           /\ {r.result.warnings[i].code : i \in 1..2}
                 = {"EMPTY_IMAGE_SRC", "BARCODE_PLACEHOLDER"}

-----------------------------------------------------------------------------
(* Properties of the position of a block and of the paper size *)

\* a whole number of millimetres with two decimals
Mm(n) == ToString(n) \o ".00mm"

\* left, top, width and height of the element's block
Positioned(element) ==
    "left:" \o Mm(element.x) \o ";top:" \o Mm(element.y)
    \o ";width:" \o Mm(element.width) \o ";height:" \o Mm(element.height)

\* the page of one visible text or rect element without style overrides
ExpectedPage(element, cfg) ==
    <<"<div class=\"rprint-page\" style=\"position:relative;width:"
      \o ToString(cfg.width) \o "mm;height:" \o ToString(cfg.height)
      \o "mm;overflow:hidden;\">", "\n">>
    \o (IF element.type = "text"
        THEN <<"  <div data-id=\"uuid-1\" style=\"position:absolute;"
               \o Positioned(element)
               \o ";box-sizing:border-box;z-index:0;font-size:12pt;overflow:hidden;white-space:pre-wrap;word-wrap:break-word\">">>
             \o element.content \o <<"</div>">>
        ELSE <<"  <div data-id=\"uuid-1\" style=\"position:absolute;"
               \o Positioned(element)
               \o ";box-sizing:border-box;z-index:0;border:0.3mm solid #000000\"></div>">>)
    \o <<"\n", "</div>">>

-----------------------------------------------------------------------------
(* Properties of the compiler chosen *)

\* C33: a snapshot is compiled by the compiler of its canvas kind: for every
\* kind the designer can be switched to, the kind of the compile result is the
\* kind of the config that was compiled.
C33_MatchingCompiler ==
    \A k \in 1..Len(compiled) : compiled[k].result.kind = compiled[k].config.kind

-----------------------------------------------------------------------------
(* Properties of the states a subscriber observes *)

\* C34: every mutating operation is atomic for observers: a subscriber sees
\* the store the operation found or the store it leaves, never one with the
\* operation partly applied (the elements of addElement without its history
\* entry, the history entry of alignElements or duplicateElements without the
\* changed elements).
C34_Atomic ==
    ops # <<>> => (Store = ops[1].before \/ Store = ops[1].whole)

-----------------------------------------------------------------------------
(* Properties of the inputs of compileToPdfHtml *)

-----------------------------------------------------------------------------
(* Properties of the number of snapshots *)

Snapshots(h) == Len(h.past) + Len(h.future)

\* C36: in every state history.past and history.future hold at most 50
\* snapshots together: undo and redo move one snapshot from one list to the
\* other, and an operation that saves history empties future and keeps past
\* at 50 or fewer.
C36_SnapshotsCapped ==
    /\ Snapshots(history) <= HistoryCap
    /\ (Called("undo") \/ Called("redo")) =>
          /\ Snapshots(history) = Snapshots(Before.history)
          /\ Len(history.past) - Len(Before.history.past) \in {-1, 0, 1}
    /\ (ops # <<>> /\ ops[1].name \in SavingOps) =>
          /\ history.future = <<>>
          /\ Len(history.past) <= HistoryCap

\* undo on a past of 50 snapshots: 49 and 1
C36_Witness ==
    /\ Called("undo")
    /\ Len(Before.history.past) = HistoryCap
    /\ Len(history.past) = HistoryCap - 1
    /\ Len(history.future) = 1

-----------------------------------------------------------------------------
(* Properties of the selection *)

-----------------------------------------------------------------------------
(* Properties of the warning list *)

\* the element of the compiled list that has this id
ElementOf(r, id) == CHOOSE el \in Range(r.elements) : el.id = id

\* C38: the warnings stand in the order of emission, ascending z of the
\* elements they come from; every warning carries the id of an element of the
\* input that is not hidden, and a hidden element gives no warning.
C38_WarningsFollowZ ==
    \A k \in 1..Len(compiled) :
        LET r == compiled[k]
            ws == r.result.warnings
        IN  /\ \A i \in 1..Len(ws) :
                  ws[i].elementId \in {el.id : el \in VisibleOf(r.elements)}
            /\ \A i, j \in 1..Len(ws) :
                  i < j => ElementOf(r, ws[i].elementId).z <= ElementOf(r, ws[j].elementId).z
            /\ \A el \in Hidden(r.elements) :
                  \A i \in 1..Len(ws) : ws[i].elementId # el.id

\* two elements with warnings were compiled, the first of the array above the
\* second, and then again with the lower one hidden
C38_Witness ==
    /\ Len(compiled) = 2
    /\ LET now == compiled[1]
           then == compiled[2]
       IN  /\ Len(then.result.warnings) = 2
           /\ then.elements[1].z > then.elements[2].z
           /\ then.result.warnings[1].elementId = then.elements[2].id
           /\ now.elements[2].hidden
           /\ Len(now.result.warnings) = 1
           /\ now.result.warnings[1].elementId = now.elements[1].id

====
